---- MODULE Spec2Model ----
(***************************************************************************)
(* Memory Store of agent-chatbot (src/core/memory-store.ts) on top of the  *)
(* Workspace Manager's memory files (src/core/workspace-manager.ts) and    *)
(* the keyword search (src/utils/text-search.ts).                          *)
(*                                                                         *)
(* One workspace is modelled.  A memory file is the sequence of its lines; *)
(* a line is the JSON text of one object, kept as the words it is made of  *)
(* (its keys and the text of their values), so a keyword search sees keys, *)
(* values and content alike, and reading a file back is a real parse.      *)
(* generateId is modelled by a counter: the ids it returns are distinct.   *)
(* new Date() is the wall clock: every reading is an arbitrary instant.    *)
(***************************************************************************)
EXTENDS Integers, Sequences, FiniteSets, TLC

\* ------------------------------------------------------------------ bounds
MaxIds == 2          \* calls of generateId in a behaviour of Spec
MaxDeepIds == 3      \* calls of generateId in a behaviour of SpecDeep
MaxTime == 1         \* wall-clock instants 0..MaxTime
MaxCalls == 2        \* handleEvent calls in a behaviour of SpecHandler
MaxCallers == 2      \* concurrent callers of getOrCreateWorkspace
MaxReturns == 2      \* getOrCreateWorkspace calls of one caller
MaxLogLines == 2     \* lines of a memory file found on the disk
MaxLogPatches == 1   \* patchMemory calls in a behaviour of SpecLog
MaxIdLen == 3        \* characters of a userId or channelId in SpecKey
MaxPairIdLen == 1    \* characters of a userId or channelId in SpecKeys
MaxPairIds == 2      \* calls of generateId in a behaviour of SpecPair
MaxSignals == 5      \* SIGTERM and SIGINT signals the process receives
MaxSetups == 2       \* calls of setupGlobalErrorHandler
MaxSegments == 3     \* segments of a relativePath given to a file operation
MaxFiles == 1        \* files on the disk before the last write of a behaviour of SpecFiles
ConfigSearchLimit == 2   \* config.searchLimit of the MemoryStore instance
ConfigMaxChars == 30     \* config.maxChars, in words of a line
DefaultMaxResults == 10  \* text-search.ts defaults
DefaultMaxChars == 2000
MaxCharsOption == 14     \* an options.maxChars that one creation line exhausts

\* ------------------------------------------------------------ value domains
Visibilities == {"public", "private"}
Importances == {"high", "normal"}
Contents == {"blue", "pizza"}
PUBLIC == "memory.public.jsonl"
PRIVATE == "memory.private.jsonl"
NoPath == "null"

\* an optional argument: <<>> is undefined, <<v>> is the value v
Opt(S) == {<<>>} \cup {<<v>> : v \in S}
\* x ?? dflt, and a destructuring default
OrElse(opt, dflt) == IF opt = <<>> THEN dflt ELSE opt[1]

\* the strings generateId returns, in the order of the calls
IdText == <<"mem_1", "mem_2", "mem_3", "mem_4", "mem_5", "mem_6", "mem_7", "mem_8">>
\* Date.toISOString() of instant 0, 1, ...: fixed width, so that the order
\* of the strings is the order of the instants
IsoText == <<"T00", "T01", "T02", "T03", "T04", "T05", "T06", "T07">>

Instants == 0..MaxTime
toISOString(ms) == IsoText[ms + 1]
IsoRank(s) == CHOOSE i \in 1..Len(IsoText) : IsoText[i] = s
\* a.localeCompare(b) on two ISO strings: negative, zero or positive
localeCompare(a, b) == IsoRank(a) - IsoRank(b)

\* ------------------------------------------------------------- JSON lines
\* A line of a memory file is the JSON text of one object: here the function
\* from the keys it carries to the text of their values.
KeySet == {"id", "ts", "type", "targetId", "enabled", "visibility", "importance", "content"}

\* the JSON text of one value: a boolean becomes the word true or false
ValueText(k, v) == IF k = "enabled" THEN (IF v THEN "true" ELSE "false") ELSE v

\* JSON.stringify(event): a field the object does not carry is not emitted
JSONstringify(obj) == [k \in DOMAIN obj |-> ValueText(k, obj[k])]

\* lines that are JSON but not the text of an object: null and a number
NullLine == [null |-> "null"]
NumberLine == [number |-> "42"]
\* a line that is not JSON; its text holds the word pizza
GarbageLine == [text |-> "pizza"]

\* whether JSON.parse(line) returns
WellFormed(line) ==
    \/ line \in {NullLine, NumberLine}
    \/ /\ DOMAIN line \subseteq KeySet
       /\ "enabled" \in DOMAIN line => line.enabled \in {"true", "false"}

ParseValue(k, text) == IF k = "enabled" THEN text = "true" ELSE text

\* JSON.parse(line) for such a line
JSONparse(line) == [k \in DOMAIN line |-> ParseValue(k, line[k])]

\* the value null, as JSON.parse returns it
Null == JSONparse(NullLine)

\* ------------------------------------------------------------------ state
VARIABLES
    isDm,      \* workspace.isDm of the one workspace
    pub,       \* lines of memory.public.jsonl
    priv,      \* lines of memory.private.jsonl (stays empty unless isDm)
    nextId,    \* number of generateId calls so far, plus one
    clock,     \* the last reading of new Date()
    created,   \* history: id -> content passed to the addMemory that returned it
    last,      \* the last call, its arguments and its outcome
    activeEvents,  \* MessageHandler: the dedup keys in flight
    task,          \* each handleEvent call: its position, event and response
    sentReplies,   \* the platform adapter: the replies it has sent
    fs,            \* which of the workspace directory and its memory files exist
    caller,        \* each getOrCreateWorkspace caller: its position and locals
    disk,          \* the directory tree: absolute path -> directory mark or file content
    access,        \* the last workspace file operation, its outcome and the paths it touched
    workspaces,    \* the WorkspaceInfo resolved for each event seen so far
    isShuttingDown,   \* error-handler.ts: the module's shutdown flag
    signalListeners,  \* how many SIGTERM/SIGINT listener pairs are registered
    setupCalls,       \* calls of setupGlobalErrorHandler so far
    received,         \* history: the signals the process has received
    dispatched        \* history: the events dispatched on globalThis

\* the Memory Store and its files, the event layer, the workspace on disk,
\* the workspace file operations
memVars == <<isDm, pub, priv, nextId, clock, created, last>>
handlerVars == <<activeEvents, task, sentReplies>>
wsVars == <<fs, caller>>
fileVars == <<disk, access, workspaces>>
errorVars == <<isShuttingDown, signalListeners, setupCalls, received, dispatched>>
vars == <<isDm, pub, priv, nextId, clock, created, last,
          activeEvents, task, sentReplies, fs, caller, disk, access, workspaces,
          isShuttingDown, signalListeners, setupCalls, received, dispatched>>

\* the error-handler module as loaded: let isShuttingDown = false, and no
\* listener registered
ProcessStarted ==
    /\ isShuttingDown = FALSE
    /\ signalListeners = 0
    /\ setupCalls = 0
    /\ received = <<>>
    /\ dispatched = <<>>

\* --------------------------------------------------------- WorkspaceManager
\* faulty variant: no check of workspace.isDm
getMemoryFilePathAnyContext(dm, fileType) == fileType

\* getMemoryFilePath(workspace, fileType): NoPath is null
getMemoryFilePath(dm, fileType) ==
    IF fileType = PRIVATE /\ ~dm THEN NoPath ELSE fileType

\* a memory file that is not on the disk, in the place of its lines
Missing == <<[errno |-> "ENOENT"]>>

\* readWorkspaceFile(workspace, relativePath): the lines, or Missing when it
\* throws WORKSPACE_NOT_FOUND
readWorkspaceFile(pubFile, privFile, relativePath) ==
    IF relativePath = PRIVATE THEN privFile ELSE pubFile

\* faulty variant: the write without {append: true}
appendOverwrites(file, line) == <<line>>

\* faulty variant: the new line is put ahead of the file's content
appendPrepends(file, line) ==
    IF file = Missing THEN <<line>> ELSE <<line>> \o file

\* Deno.writeTextFile(path, content, {append: true}), which creates a missing file
appendWorkspaceFile(file, line) ==
    IF file = Missing THEN <<line>> ELSE Append(file, line)

\* --------------------------------------------------------------- MemoryStore
generateId(n) == IdText[n]

FileTypeOf(visibility) == IF visibility = "private" THEN PRIVATE ELSE PUBLIC

getMemoryPath(dm, visibility) == getMemoryFilePath(dm, FileTypeOf(visibility))

\* parseMemoryLog: every non-blank line that JSON.parse accepts, in file order
RECURSIVE parseMemoryLog(_)
parseMemoryLog(lines) ==
    IF lines = <<>> THEN <<>>
    ELSE IF WellFormed(Head(lines))
         THEN <<JSONparse(Head(lines))>> \o parseMemoryLog(Tail(lines))
         ELSE parseMemoryLog(Tail(lines))

IsType(event, t) == "type" \in DOMAIN event /\ event.type = t

\* memoriesMap.set(id, value) on a Map kept as the sequence of its values in
\* insertion order: an existing key keeps its place and takes the new value
MapSet(map, value) ==
    IF \E i \in 1..Len(map) : map[i].id = value.id
    THEN [i \in 1..Len(map) |-> IF map[i].id = value.id THEN value ELSE map[i]]
    ELSE Append(map, value)

ResolvedOfEntry(event) ==
    [id |-> event.id, enabled |-> event.enabled, visibility |-> event.visibility,
     importance |-> event.importance, content |-> event.content,
     createdAt |-> event.ts, lastModifiedAt |-> event.ts]

\* faulty variant: a patch whose target is not in the map yet puts it there
RECURSIVE CollectMemoriesAndTargets(_, _)
CollectMemoriesAndTargets(events, map) ==
    IF events = <<>> THEN map
    ELSE LET event == Head(events)
         IN  CollectMemoriesAndTargets(Tail(events),
                IF IsType(event, "memory")
                THEN MapSet(map, ResolvedOfEntry(event))
                ELSE IF /\ IsType(event, "patch")
                        /\ \A i \in 1..Len(map) : map[i].id # event.targetId
                THEN Append(map, [id |-> event.targetId, enabled |-> TRUE,
                                  visibility |-> "public", importance |-> "normal",
                                  content |-> "", createdAt |-> event.ts,
                                  lastModifiedAt |-> event.ts])
                ELSE map)

\* first pass of resolveMemories, creation events
RECURSIVE CollectMemories(_, _)
CollectMemories(events, map) ==
    IF events = <<>> THEN map
    ELSE CollectMemories(Tail(events),
            IF IsType(Head(events), "memory")
            THEN MapSet(map, ResolvedOfEntry(Head(events)))
            ELSE map)

\* first pass of resolveMemories, patchesMap.get(targetId): in file order
PatchesFor(events, targetId) ==
    SelectSeq(events, LAMBDA e : IsType(e, "patch") /\ e.targetId = targetId)

\* Array.prototype.sort with the comparator (a, b) => a[key].localeCompare(b[key]):
\* a stable sort, written as an insertion sort
RECURSIVE InsertSorted(_, _, _)
InsertSorted(sorted, x, key) ==
    IF sorted = <<>> THEN <<x>>
    ELSE IF localeCompare(sorted[Len(sorted)][key], x[key]) <= 0
         THEN Append(sorted, x)
         ELSE Append(InsertSorted(SubSeq(sorted, 1, Len(sorted) - 1), x, key),
                     sorted[Len(sorted)])

RECURSIVE SortFrom(_, _, _)
SortFrom(rest, sorted, key) ==
    IF rest = <<>> THEN sorted
    ELSE SortFrom(Tail(rest), InsertSorted(sorted, Head(rest), key), key)

SortBy(seq, key) == SortFrom(seq, <<>>, key)

\* faulty variant: the patch is spread over the memory, which loses its content
ApplyPatchDropsContent(memory, patch) ==
    [memory EXCEPT
        !.enabled = IF "enabled" \in DOMAIN patch THEN patch.enabled ELSE @,
        !.visibility = IF "visibility" \in DOMAIN patch THEN patch.visibility ELSE @,
        !.importance = IF "importance" \in DOMAIN patch THEN patch.importance ELSE @,
        !.content = "",
        !.lastModifiedAt = patch.ts]

\* faulty variant: lastModifiedAt is left as it was
ApplyPatchKeepsModified(memory, patch) ==
    [memory EXCEPT
        !.enabled = IF "enabled" \in DOMAIN patch THEN patch.enabled ELSE @,
        !.visibility = IF "visibility" \in DOMAIN patch THEN patch.visibility ELSE @,
        !.importance = IF "importance" \in DOMAIN patch THEN patch.importance ELSE @]

\* the body of the loop over a memory's patches
ApplyPatch(memory, patch) ==
    [memory EXCEPT
        !.enabled = IF "enabled" \in DOMAIN patch THEN patch.enabled ELSE @,
        !.visibility = IF "visibility" \in DOMAIN patch THEN patch.visibility ELSE @,
        !.importance = IF "importance" \in DOMAIN patch THEN patch.importance ELSE @,
        !.lastModifiedAt = patch.ts]

RECURSIVE ApplyPatches(_, _)
ApplyPatches(memory, patches) ==
    IF patches = <<>> THEN memory
    ELSE ApplyPatches(ApplyPatch(memory, Head(patches)), Tail(patches))

\* faulty variant: the patches are applied in file order, unsorted
SortPatchesFileOrder(patches) == patches

\* faulty variant: the comparator is reversed, the newest patch comes first
SortPatchesNewestFirst(patches) ==
    LET sorted == SortBy(patches, "ts")
    IN  [i \in 1..Len(sorted) |-> sorted[Len(sorted) + 1 - i]]

\* the order in which a memory's patches are applied
SortPatches(patches) == SortBy(patches, "ts")

\* second pass of resolveMemories over the map's values
RECURSIVE ApplyAll(_, _)
ApplyAll(map, events) ==
    IF map = <<>> THEN <<>>
    ELSE <<ApplyPatches(Head(map), SortPatches(PatchesFor(events, Head(map).id)))>>
         \o ApplyAll(Tail(map), events)

\* resolveMemories(events): Array.from(memoriesMap.values()) after the patches
resolveMemories(events) == ApplyAll(CollectMemories(events, <<>>), events)

\* event.type read on null, in the first pass of resolveMemories: a TypeError
ResolveThrows(events) == \E i \in 1..Len(events) : events[i] = Null

\* the errors loadAllMemories may meet
WorkspaceNotFound == [name |-> "WorkspaceError", message |-> "File not found"]
TypeError == [name |-> "TypeError", message |-> "Cannot read properties of null"]
\* error.message.includes("not found")
IncludesNotFound(message) == message = "File not found"

\* faulty variant: the catch swallows every error
LoadCatchesAll(error) == TRUE

\* the catch of loadAllMemories: the errors it turns into an empty result
LoadCatches(error) == error.name = "MemoryError" \/ IncludesNotFound(error.message)

\* the error loadAllMemories(workspace, visibility) throws, "none" when it returns
LoadThrown(dm, pubFile, privFile, visibility) ==
    LET content == readWorkspaceFile(pubFile, privFile, FileTypeOf(visibility))
        met == IF content = Missing THEN <<WorkspaceNotFound>>
               ELSE IF ResolveThrows(parseMemoryLog(content)) THEN <<TypeError>>
               ELSE <<>>
    IN  IF getMemoryPath(dm, visibility) = NoPath \/ met = <<>> THEN "none"
        ELSE IF LoadCatches(met[1]) THEN "none"
        ELSE met[1].name

\* loadAllMemories(workspace, visibility), when it returns
loadAllMemories(dm, pubFile, privFile, visibility) ==
    LET content == readWorkspaceFile(pubFile, privFile, FileTypeOf(visibility))
    IN  IF getMemoryPath(dm, visibility) = NoPath THEN <<>>
        ELSE IF content = Missing \/ ResolveThrows(parseMemoryLog(content)) THEN <<>>
        ELSE resolveMemories(parseMemoryLog(content))

\* faulty variant: the comparison of the ids is negated
FindOtherId(seq, id) ==
    IF \E i \in 1..Len(seq) : seq[i].id # id
    THEN <<seq[CHOOSE i \in 1..Len(seq) :
                /\ seq[i].id # id
                /\ \A j \in 1..(i - 1) : seq[j].id = id]>>
    ELSE <<>>

\* publicMemories.find((m) => m.id === memoryId): <<>> for undefined, else
\* <<the first match>>
Find(seq, id) ==
    IF \E i \in 1..Len(seq) : seq[i].id = id
    THEN <<seq[CHOOSE i \in 1..Len(seq) :
                /\ seq[i].id = id
                /\ \A j \in 1..(i - 1) : seq[j].id # id]>>
    ELSE <<>>

\* the error findMemoryById(workspace, memoryId) throws, "none" when it returns
FindThrown(dm, pubFile, privFile, memoryId) ==
    LET publicThrown == LoadThrown(dm, pubFile, privFile, "public")
    IN  IF publicThrown # "none" THEN publicThrown
        ELSE IF Find(loadAllMemories(dm, pubFile, privFile, "public"), memoryId) # <<>>
        THEN "none"
        ELSE IF dm THEN LoadThrown(dm, pubFile, privFile, "private")
        ELSE "none"

\* findMemoryById(workspace, memoryId): <<>> for null
findMemoryById(dm, pubFile, privFile, memoryId) ==
    LET publicMatch == Find(loadAllMemories(dm, pubFile, privFile, "public"), memoryId)
    IN  IF publicMatch # <<>> THEN publicMatch
        ELSE IF dm
             THEN Find(loadAllMemories(dm, pubFile, privFile, "private"), memoryId)
             ELSE <<>>

\* ------------------------------------------------------------ text-search
\* String.prototype.toLowerCase on the words the model uses
toLowerCase(w) == IF w = "HIGH" THEN "high" ELSE IF w = "BLUE" THEN "blue" ELSE w

\* compareLine.includes(searchQuery), at the granularity of words
LineIncludes(line, query, caseInsensitive) ==
    LET q == IF caseInsensitive THEN toLowerCase(query) ELSE query
        fold(w) == IF caseInsensitive THEN toLowerCase(w) ELSE w
    IN  \E k \in DOMAIN line : fold(k) = q \/ fold(line[k]) = q

\* line.length and result.content.length, counted in words (a key and a value
\* for each field)
CharLength(line) == 2 * Cardinality(DOMAIN line)

\* limitResults(results, maxResults, maxChars)
RECURSIVE LimitFrom(_, _, _, _, _)
LimitFrom(results, limited, totalChars, maxResults, maxChars) ==
    IF results = <<>> THEN limited
    ELSE IF Len(limited) >= maxResults THEN limited
    ELSE IF totalChars + CharLength(Head(results).content) > maxChars THEN limited
    ELSE LimitFrom(Tail(results), Append(limited, Head(results)),
                   totalChars + CharLength(Head(results).content), maxResults, maxChars)

\* faulty variant: the character budget is not applied
limitResultsByCount(results, maxResults, maxChars) ==
    SubSeq(results, 1, IF Len(results) < maxResults THEN Len(results) ELSE maxResults)

limitResults(results, maxResults, maxChars) ==
    LimitFrom(results, <<>>, 0, maxResults, maxChars)

\* every matching line of the file as a SearchResult, in line order
RECURSIVE MatchesFrom(_, _, _, _)
MatchesFrom(lines, i, query, caseInsensitive) ==
    IF i > Len(lines) THEN <<>>
    ELSE (IF LineIncludes(lines[i], query, caseInsensitive)
          THEN <<[lineNumber |-> i, content |-> lines[i], matchedText |-> query]>>
          ELSE <<>>) \o MatchesFrom(lines, i + 1, query, caseInsensitive)

\* tryRipgrepSearch when rg runs: rg --json --max-count maxResults, the first
\* maxResults matching lines
tryRipgrepSearch(lines, query, maxResults, caseInsensitive) ==
    LET all == MatchesFrom(lines, 1, query, caseInsensitive)
    IN  SubSeq(all, 1, IF Len(all) < maxResults THEN Len(all) ELSE maxResults)

\* builtInSearch: the loop over the lines
RECURSIVE BuiltInFrom(_, _, _, _, _, _, _)
BuiltInFrom(lines, i, results, totalChars, query, maxResults, maxChars) ==
    IF ~(i <= Len(lines) /\ Len(results) < maxResults) THEN results
    ELSE IF LineIncludes(lines[i], query, TRUE)
         THEN IF totalChars + CharLength(lines[i]) > maxChars THEN results
              ELSE BuiltInFrom(lines, i + 1,
                       Append(results, [lineNumber |-> i, content |-> lines[i],
                                        matchedText |-> query]),
                       totalChars + CharLength(lines[i]), query, maxResults, maxChars)
         ELSE BuiltInFrom(lines, i + 1, results, totalChars, query, maxResults, maxChars)

\* faulty variant: the catch lets NotFound through
BuiltInCatchesNothing(error) == FALSE

\* the catch of builtInSearch: the error it turns into an empty result
BuiltInCatches(error) == error = "NotFound"

\* the error builtInSearch throws, "none" when it returns
BuiltInThrown(lines) ==
    IF lines = Missing /\ ~BuiltInCatches("NotFound") THEN "NotFound" ELSE "none"

builtInSearch(lines, query, maxResults, maxChars) ==
    IF lines = Missing THEN <<>>
    ELSE BuiltInFrom(lines, 1, <<>>, 0, query, maxResults, maxChars)

\* tryRipgrepSearch returns null: rg cannot be run, or it exits with an error
\* code, as it does for a file it cannot open
RipgrepFails(lines, rg) == ~rg \/ lines = Missing

\* the error searchInFile throws, "none" when it returns
SearchThrown(lines, rg) ==
    IF RipgrepFails(lines, rg) THEN BuiltInThrown(lines) ELSE "none"

\* searchInFile(path, query, options); rg says whether ripgrep could be run
searchInFile(lines, query, options, rg) ==
    LET maxResults == OrElse(options.maxResults, DefaultMaxResults)
        maxChars == OrElse(options.maxChars, DefaultMaxChars)
    IN  IF ~RipgrepFails(lines, rg)
        THEN limitResults(tryRipgrepSearch(lines, query, maxResults, TRUE),
                          maxResults, maxChars)
        ELSE builtInSearch(lines, query, maxResults, maxChars)

\* the loop of searchMultipleKeywords over one keyword's results
RECURSIVE MergeUnseen(_, _)
MergeUnseen(allResults, results) ==
    IF results = <<>> THEN allResults
    ELSE MergeUnseen(
            IF \E j \in 1..Len(allResults) :
                  allResults[j].lineNumber = Head(results).lineNumber
            THEN allResults
            ELSE Append(allResults, Head(results)),
            Tail(results))

RECURSIVE CollectKeywords(_, _, _, _, _)
CollectKeywords(lines, keywords, allResults, options, rg) ==
    IF keywords = <<>> THEN allResults
    ELSE CollectKeywords(lines, Tail(keywords),
            MergeUnseen(allResults, searchInFile(lines, Head(keywords), options, rg)),
            options, rg)

\* faulty variant: the merged results are left in the order of the keywords
SortByLineNever(rest, sorted) == rest

\* allResults.sort((a, b) => a.lineNumber - b.lineNumber)
RECURSIVE SortByLine(_, _)
SortByLine(rest, sorted) ==
    IF rest = <<>> THEN sorted
    ELSE LET x == Head(rest)
             before == SelectSeq(sorted, LAMBDA r : r.lineNumber <= x.lineNumber)
             after == SelectSeq(sorted, LAMBDA r : r.lineNumber > x.lineNumber)
         IN  SortByLine(Tail(rest), before \o <<x>> \o after)

\* the error searchMultipleKeywords throws, "none" when it returns
MultipleThrown(lines, keywords, rg) ==
    IF keywords = <<>> THEN "none" ELSE SearchThrown(lines, rg)

\* searchMultipleKeywords(path, keywords, options)
searchMultipleKeywords(lines, keywords, options, rg) ==
    limitResults(
        SortByLine(CollectKeywords(lines, keywords, <<>>, options, rg), <<>>),
        OrElse(options.maxResults, DefaultMaxResults),
        OrElse(options.maxChars, DefaultMaxChars))

\* ------------------------------------------------------------------ inputs
AllPatchArgs == [enabled : Opt(BOOLEAN), visibility : Opt(Visibilities),
                 importance : Opt(Importances)]
\* the patches tried: the empty one, every patch of one field, and one of all three
PatchArgs ==
    {p \in AllPatchArgs :
        \/ Cardinality({f \in {"enabled", "visibility", "importance"} : p[f] # <<>>}) <= 1
        \/ p = [enabled |-> <<FALSE>>, visibility |-> <<"private">>, importance |-> <<"high">>]}
KeywordLists == {<<"pizza", "BLUE">>, <<"HIGH">>}
SearchOptions ==
    {[maxResults |-> <<>>, maxChars |-> <<>>],
     [maxResults |-> <<1>>, maxChars |-> <<MaxCharsOption>>]}
\* addMemory's options: each field left out (the default) or set to the other value
AddOptions == [visibility : {<<>>, <<"private">>}, importance : {<<>>, <<"high">>}]
\* the ids a caller may name: every id generated so far, and one never generated
Nonexistent == "mem_nonexistent"
TargetIds(n) == {IdText[i] : i \in 1..(n - 1)} \cup {Nonexistent}

\* ------------------------------------------------------------ initial state
\* the handleEvent calls of a behaviour, and a call that has not been made yet
Calls == 1..MaxCalls
IdleTask ==
    [pc |-> "idle", event |-> <<>>, invoked |-> FALSE, threw |-> FALSE,
     response |-> <<>>, dispatched |-> FALSE, sends |-> 0, messages |-> 0,
     replyTo |-> <<>>, sendFailed |-> FALSE,
     \* the patchMemory call of the handling: its position, the memory its
     \* findMemoryById returned, the length of the file then, and the lines
     \* other calls appended before its own append
     step |-> "none", found |-> <<>>, seen |-> 0, behind |-> 0]

\* new MessageHandler(orchestrator) and a fresh platform adapter
HandlerInit ==
    /\ activeEvents = {}
    /\ task = [c \in Calls |-> IdleTask]
    /\ sentReplies = <<>>

\* the callers of getOrCreateWorkspace, and one that has not called yet
Callers == 1..MaxCallers
IdleCaller ==
    [pc |-> "idle", returned |-> 0, sawReturn |-> FALSE, result |-> <<>>,
     error |-> "none"]

\* no workspace file operation and no workspace resolution has happened
FilesIdle ==
    /\ disk = <<>>
    /\ access = [op |-> "init", error |-> "none"]
    /\ workspaces = <<>>

\* the Memory Store before its first call
MemoryInit ==
    /\ isDm \in BOOLEAN
    /\ pub = <<>>
    /\ priv = <<>>
    /\ nextId = 1
    /\ clock = 0
    /\ created = <<>>
    /\ last = [op |-> "init", error |-> "none"]

\* ----------------------------------------------------------------- actions
\* a workspace that getOrCreateWorkspace has created, its memory files empty
Init ==
    /\ MemoryInit
    /\ HandlerInit
    /\ ProcessStarted
    /\ fs = [dir |-> TRUE, pub |-> TRUE, priv |-> isDm]
    /\ caller = [w \in Callers |-> IdleCaller]
    /\ FilesIdle

\* the file an append for `visibility` goes to
AppendTo(file, fileType, visibility, line) ==
    IF FileTypeOf(visibility) = fileType THEN appendWorkspaceFile(file, line) ELSE file

\* addMemory(workspace, content, options), with `now` the reading of new Date()
AddMemory(content, options, now) ==
    LET visibility == OrElse(options.visibility, "public")
        importance == OrElse(options.importance, "normal")
        memoryPath == getMemoryPath(isDm, visibility)
        entry == [id |-> generateId(nextId), ts |-> toISOString(now), type |-> "memory",
                  enabled |-> TRUE, visibility |-> visibility,
                  importance |-> importance, content |-> content]
        line == JSONstringify(entry)
    IN  IF memoryPath = NoPath
        THEN /\ last' = [op |-> "addMemory", error |-> "MEMORY_WRITE_FAILED",
                         visibility |-> visibility]
             /\ UNCHANGED <<isDm, pub, priv, nextId, clock, created>>
        ELSE /\ nextId' = nextId + 1
             /\ clock' = now
             /\ pub' = AppendTo(pub, PUBLIC, visibility, line)
             /\ priv' = AppendTo(priv, PRIVATE, visibility, line)
             /\ created' = (entry.id :> content) @@ created
             /\ last' = [op |-> "addMemory", error |-> "none",
                         visibility |-> visibility, entry |-> entry]
             /\ UNCHANGED isDm

\* the patch event patchMemory builds: only the fields the caller gave
PatchEntry(id, ts, targetId, patch) ==
    LET given == {f \in {"enabled", "visibility", "importance"} : patch[f] # <<>>}
    IN  [k \in {"id", "ts", "type", "targetId"} \cup given |->
            CASE k = "id" -> id
              [] k = "ts" -> ts
              [] k = "type" -> "patch"
              [] k = "targetId" -> targetId
              [] OTHER -> patch[k][1]]

\* the visibility patchMemory routes the patch by
PatchRoute(originalMemory) == originalMemory.visibility

\* patchMemory(workspace, targetId, patch)
PatchMemory(targetId, patch, now) ==
    LET found == findMemoryById(isDm, pub, priv, targetId)
        thrown == FindThrown(isDm, pub, priv, targetId)
    IN  IF thrown # "none"
        THEN /\ last' = [op |-> "patchMemory", error |-> thrown, targetId |-> targetId]
             /\ UNCHANGED <<isDm, pub, priv, nextId, clock, created>>
        ELSE IF found = <<>>
        THEN /\ last' = [op |-> "patchMemory", error |-> "MEMORY_READ_FAILED",
                         targetId |-> targetId]
             /\ UNCHANGED <<isDm, pub, priv, nextId, clock, created>>
        ELSE LET originalMemory == found[1]
                 patchEntry == PatchEntry(generateId(nextId), toISOString(now),
                                          targetId, patch)
                 route == PatchRoute(originalMemory)
                 memoryPath == getMemoryPath(isDm, route)
                 line == JSONstringify(patchEntry)
             IN  /\ nextId' = nextId + 1
                 /\ clock' = now
                 /\ UNCHANGED <<isDm, created>>
                 /\ IF memoryPath = NoPath
                    THEN /\ last' = [op |-> "patchMemory", error |-> "MEMORY_WRITE_FAILED",
                                     targetId |-> targetId, patch |-> patch]
                         /\ UNCHANGED <<pub, priv>>
                    ELSE /\ pub' = AppendTo(pub, PUBLIC, route, line)
                         /\ priv' = AppendTo(priv, PRIVATE, route, line)
                         /\ last' = [op |-> "patchMemory", error |-> "none",
                                     targetId |-> targetId, patch |-> patch]

\* disableMemory(workspace, memoryId)
DisableMemory(memoryId, now) ==
    PatchMemory(memoryId,
                [enabled |-> <<FALSE>>, visibility |-> <<>>, importance |-> <<>>], now)

\* faulty variant: the filter forgets m.enabled
IsImportantIgnoresEnabled(m) == m.importance = "high"

\* the filter of getImportantMemories
IsImportant(m) == m.enabled /\ m.importance = "high"

\* the result of getImportantMemories(workspace)
getImportantMemories(dm, pubFile, privFile) ==
    LET importantPublic ==
            SelectSeq(loadAllMemories(dm, pubFile, privFile, "public"), IsImportant)
    IN  IF dm
        THEN SortBy(importantPublic \o
                    SelectSeq(loadAllMemories(dm, pubFile, privFile, "private"),
                              IsImportant),
                    "createdAt")
        ELSE SortBy(importantPublic, "createdAt")

\* the error getImportantMemories throws, "none" when it returns
ImportantThrown(dm, pubFile, privFile) ==
    LET publicThrown == LoadThrown(dm, pubFile, privFile, "public")
    IN  IF publicThrown # "none" THEN publicThrown
        ELSE IF dm THEN LoadThrown(dm, pubFile, privFile, "private")
        ELSE "none"

GetImportantMemories ==
    /\ last' = [op |-> "getImportantMemories",
                error |-> ImportantThrown(isDm, pub, priv),
                result |-> IF ImportantThrown(isDm, pub, priv) = "none"
                           THEN getImportantMemories(isDm, pub, priv)
                           ELSE <<>>]
    /\ UNCHANGED <<isDm, pub, priv, nextId, clock, created>>
    /\ UNCHANGED <<handlerVars, wsVars, errorVars, fileVars>>

\* faulty variant: the check of memory.enabled is missing
KeepFoundIgnoresEnabled(memory) == memory # <<>>

\* whether searchMemories keeps a re-resolved memory
KeepFound(memory) == memory # <<>> /\ memory[1].enabled

\* the loop of searchMemories over one file's search results, an error thrown
\* in its body caught and the result skipped; acc is [results, seenIds]
RECURSIVE CollectFound(_, _, _, _, _)
CollectFound(dm, pubFile, privFile, found, acc) ==
    IF found = <<>> THEN acc
    ELSE LET text == Head(found).content
             event == JSONparse(text)
         IN  IF WellFormed(text) /\ IsType(event, "memory") /\ event.id \notin acc.seenIds
             THEN LET memory == findMemoryById(dm, pubFile, privFile, event.id)
                      thrown == FindThrown(dm, pubFile, privFile, event.id)
                  IN  CollectFound(dm, pubFile, privFile, Tail(found),
                        [results |-> IF thrown = "none" /\ KeepFound(memory)
                                     THEN Append(acc.results, memory[1])
                                     ELSE acc.results,
                         seenIds |-> acc.seenIds \cup {event.id}])
             ELSE CollectFound(dm, pubFile, privFile, Tail(found), acc)

\* results.slice(0, n) for n >= 0
Slice(seq, n) == SubSeq(seq, 1, IF Len(seq) < n THEN Len(seq) ELSE n)

\* the result of searchMemories(workspace, keywords, options)
searchMemories(dm, pubFile, privFile, keywords, options, rg) ==
    LET searchOpts == [maxResults |-> <<OrElse(options.maxResults, ConfigSearchLimit)>>,
                       maxChars |-> <<OrElse(options.maxChars, ConfigMaxChars)>>]
        publicPath == getMemoryPath(dm, "public")
        afterPublic ==
            IF publicPath # NoPath
            THEN CollectFound(dm, pubFile, privFile,
                    searchMultipleKeywords(pubFile, keywords, searchOpts, rg),
                    [results |-> <<>>, seenIds |-> {}])
            ELSE [results |-> <<>>, seenIds |-> {}]
        afterPrivate ==
            IF dm /\ getMemoryPath(dm, "private") # NoPath
            THEN CollectFound(dm, pubFile, privFile,
                    searchMultipleKeywords(privFile, keywords, searchOpts, rg),
                    afterPublic)
            ELSE afterPublic
    IN  Slice(afterPrivate.results, searchOpts.maxResults[1])

\* the error searchMemories throws, "none" when it returns
SearchMemoriesThrown(dm, pubFile, privFile, keywords, rg) ==
    LET publicThrown == IF getMemoryPath(dm, "public") # NoPath
                        THEN MultipleThrown(pubFile, keywords, rg) ELSE "none"
    IN  IF publicThrown # "none" THEN publicThrown
        ELSE IF dm /\ getMemoryPath(dm, "private") # NoPath
        THEN MultipleThrown(privFile, keywords, rg)
        ELSE "none"

SearchMemories(keywords, options, rg) ==
    /\ last' = [op |-> "searchMemories",
                error |-> SearchMemoriesThrown(isDm, pub, priv, keywords, rg),
                keywords |-> keywords,
                limit |-> OrElse(options.maxResults, ConfigSearchLimit),
                options |-> options, rg |-> rg,
                result |-> IF SearchMemoriesThrown(isDm, pub, priv, keywords, rg) = "none"
                           THEN searchMemories(isDm, pub, priv, keywords, options, rg)
                           ELSE <<>>]
    /\ UNCHANGED <<isDm, pub, priv, nextId, clock, created>>

\* the calls that write, tried while generateId has ids left
Add(maxIds) ==
    /\ nextId <= maxIds
    /\ \E content \in Contents, options \in AddOptions, now \in Instants :
          AddMemory(content, options, now)
    /\ UNCHANGED <<handlerVars, wsVars, errorVars, fileVars>>

Patch(maxIds) ==
    /\ nextId <= maxIds
    /\ \E targetId \in TargetIds(nextId), patch \in PatchArgs, now \in Instants :
          PatchMemory(targetId, patch, now)
    /\ UNCHANGED <<handlerVars, wsVars, errorVars, fileVars>>

Disable(maxIds) ==
    /\ nextId <= maxIds
    /\ \E memoryId \in TargetIds(nextId), now \in Instants :
          DisableMemory(memoryId, now)
    /\ UNCHANGED <<handlerVars, wsVars, errorVars, fileVars>>

Search ==
    /\ \E keywords \in KeywordLists, options \in SearchOptions, rg \in BOOLEAN :
          SearchMemories(keywords, options, rg)
    /\ UNCHANGED <<handlerVars, wsVars, errorVars, fileVars>>

\* every operation of the Memory Store
Next ==
    \/ Add(MaxIds)
    \/ Patch(MaxIds)
    \/ Disable(MaxIds)
    \/ GetImportantMemories
    \/ Search

Spec == Init /\ [][Next]_vars

\* longer histories of writes, read back by getImportantMemories
NextDeep ==
    \/ Add(MaxDeepIds)
    \/ Patch(MaxDeepIds)
    \/ Disable(MaxDeepIds)
    \/ GetImportantMemories

SpecDeep == Init /\ [][NextDeep]_vars

\* the writes and getImportantMemories under a clock that never goes back
AddLater == Add(MaxDeepIds) /\ clock' >= clock
PatchLater == Patch(MaxDeepIds) /\ clock' >= clock
DisableLater == Disable(MaxDeepIds) /\ clock' >= clock

NextMonotone ==
    \/ AddLater
    \/ PatchLater
    \/ DisableLater
    \/ GetImportantMemories

SpecMonotone == Init /\ [][NextMonotone]_vars

\* ------------------------------------------- a log found on the disk
\* A memory file as the Memory Store may find it: written by earlier runs, cut
\* short or edited by hand, or not there at all.
LogMemory1 ==
    JSONstringify([id |-> "mem_1", ts |-> "T00", type |-> "memory", enabled |-> TRUE,
                   visibility |-> "public", importance |-> "high", content |-> "pizza"])
LogMemory2 ==
    JSONstringify([id |-> "mem_2", ts |-> "T01", type |-> "memory", enabled |-> TRUE,
                   visibility |-> "public", importance |-> "normal", content |-> "blue"])
LogPatch ==
    JSONstringify([id |-> "mem_3", ts |-> "T01", type |-> "patch", targetId |-> "mem_1",
                   enabled |-> FALSE])
\* a patch whose target has no creation event
OrphanPatch ==
    JSONstringify([id |-> "mem_4", ts |-> "T00", type |-> "patch", targetId |-> "mem_7",
                   importance |-> "high"])
LogPrivate ==
    JSONstringify([id |-> "mem_5", ts |-> "T00", type |-> "memory", enabled |-> TRUE,
                   visibility |-> "private", importance |-> "high", content |-> "blue"])
LogLines ==
    {LogMemory1, LogMemory2, LogPatch, OrphanPatch, GarbageLine, NullLine, NumberLine}
\* a memory, its disabling patch, and a later memory with the same content
LogPizza ==
    JSONstringify([id |-> "mem_2", ts |-> "T01", type |-> "memory", enabled |-> TRUE,
                   visibility |-> "public", importance |-> "normal", content |-> "pizza"])
DisabledThenAdded == <<LogMemory1, LogPatch, LogPizza>>
LogContents ==
    UNION {[1..n -> LogLines] : n \in 0..MaxLogLines} \cup {Missing, DisabledThenAdded}
PrivateContents == {<<>>, Missing, <<LogPrivate>>}

LogQueries == {"pizza", "HIGH", "mem_1"}
LogKeywordLists == {<<"pizza", "BLUE">>, <<"mem_1", "pizza">>, <<"HIGH">>}
LogSearchOptions ==
    {[maxResults |-> <<>>, maxChars |-> <<>>],
     [maxResults |-> <<1>>, maxChars |-> <<14>>],
     [maxResults |-> <<2>>, maxChars |-> <<10>>],
     [maxResults |-> <<2>>, maxChars |-> <<24>>]}

\* searchInFile(publicPath, query, options)
SearchInFile ==
    /\ \E query \in LogQueries, options \in LogSearchOptions, rg \in BOOLEAN :
          last' = [op |-> "searchInFile", error |-> SearchThrown(pub, rg),
                   keywords |-> <<query>>, options |-> options, rg |-> rg,
                   result |-> IF SearchThrown(pub, rg) = "none"
                              THEN searchInFile(pub, query, options, rg) ELSE <<>>]
    /\ UNCHANGED <<isDm, pub, priv, nextId, clock, created>>
    /\ UNCHANGED <<handlerVars, wsVars, errorVars, fileVars>>

\* searchMultipleKeywords(publicPath, keywords, options)
SearchKeywords ==
    /\ \E keywords \in LogKeywordLists, options \in LogSearchOptions, rg \in BOOLEAN :
          last' = [op |-> "searchMultipleKeywords",
                   error |-> MultipleThrown(pub, keywords, rg),
                   keywords |-> keywords, options |-> options, rg |-> rg,
                   result |-> IF MultipleThrown(pub, keywords, rg) = "none"
                              THEN searchMultipleKeywords(pub, keywords, options, rg)
                              ELSE <<>>]
    /\ UNCHANGED <<isDm, pub, priv, nextId, clock, created>>
    /\ UNCHANGED <<handlerVars, wsVars, errorVars, fileVars>>

\* patchMemory on a memory of the log, and on an id the log does not create
PatchLog ==
    /\ nextId <= 5 + MaxLogPatches
    /\ \E targetId \in {"mem_1", "mem_5", "mem_7"}, now \in Instants :
          PatchMemory(targetId,
                      [enabled |-> <<>>, visibility |-> <<>>, importance |-> <<"high">>],
                      now)
    /\ UNCHANGED <<handlerVars, wsVars, errorVars, fileVars>>

\* the reads and the patch, over whatever the files hold
NextLog ==
    \/ GetImportantMemories
    \/ Search
    \/ SearchInFile
    \/ SearchKeywords
    \/ PatchLog

\* a workspace whose memory files were written before this process started
InitLog ==
    /\ isDm \in BOOLEAN
    /\ pub \in LogContents
    /\ priv \in (IF isDm THEN PrivateContents ELSE {<<>>})
    /\ nextId = 5 + 1
    /\ clock = 0
    /\ created = <<>>
    /\ last = [op |-> "init", error |-> "none"]
    /\ HandlerInit
    /\ ProcessStarted
    /\ fs = [dir |-> TRUE, pub |-> pub # Missing, priv |-> isDm /\ priv # Missing]
    /\ caller = [w \in Callers |-> IdleCaller]
    /\ FilesIdle

SpecLog == InitLog /\ [][NextLog]_vars

\* ---------------------------------------- event dedup (MessageHandler)
\* handleEvent as its specification describes it (section 4.5): admission
\* control on the key (platform, messageId), removal of the key on completion.
Platforms == {"discord", "misskey"}
MessageIds == {"msg_1", "msg_2"}
ChannelOf == [discord |-> "channel_1", misskey |-> "channel_2"]
Events ==
    {[platform |-> p, messageId |-> m, channelId |-> ChannelOf[p]] :
        p \in Platforms, m \in MessageIds}

DuplicateError == "Event already being processed"
CancelledError == "Session was cancelled"

\* what the processing pipeline may return: replySent tells whether it replied
PipelineResponses ==
    {[success |-> TRUE, replySent |-> TRUE, error |-> <<>>],
     [success |-> TRUE, replySent |-> FALSE, error |-> <<"Processing failed">>],
     [success |-> FALSE, replySent |-> TRUE, error |-> <<"Some error">>],
     [success |-> FALSE, replySent |-> FALSE, error |-> <<"Processing failed">>],
     [success |-> FALSE, replySent |-> FALSE, error |-> <<CancelledError>>]}

\* faulty variant: the key is the workspace of the event
eventKeyOfWorkspace(event) == <<event.platform, event.channelId>>

\* faulty variant: the key leaves out the platform
eventKeyIgnoresPlatform(event) == <<"any", event.messageId>>

\* the dedup key (platform, messageId)
eventKey(event) == <<event.platform, event.messageId>>

\* faulty variant: nothing is ever taken for a duplicate
IsDuplicateNever(active, key) == FALSE

\* whether a handling for the key is in flight
IsDuplicate(active, key) == key \in active

\* faulty variant: the rejected call runs the cleanup of the admitted one
RejectedDeletesKey(active, key) == active \ {key}

\* the in-flight set after a call was rejected: as before
Rejected(active, key) == active

\* faulty variant: the key is never removed
CleanupNever(active, key, threw) == active

\* faulty variant: a throw skips the removal
CleanupUnlessThrown(active, key, threw) == IF threw THEN active ELSE active \ {key}

\* the in-flight set after the handling of key ended, whichever way
Cleanup(active, key, threw) == active \ {key}

isProcessing(platform, messageId) ==
    eventKey([platform |-> platform, messageId |-> messageId]) \in activeEvents
getActiveCount == Cardinality(activeEvents)

RejectedResponse == [success |-> FALSE, replySent |-> FALSE, error |-> <<DuplicateError>>]
ThrownResponse == [success |-> FALSE, replySent |-> FALSE, error |-> <<"Pipeline threw">>]

\* handleEvent(event, platformAdapter) up to its first suspension: a duplicate
\* is answered at once, any other event is admitted and handed to the pipeline
HandleEvent(c, event) ==
    /\ task[c].pc = "idle"
    /\ IF IsDuplicate(activeEvents, eventKey(event))
       THEN /\ activeEvents' = Rejected(activeEvents, eventKey(event))
            /\ task' = [task EXCEPT ![c] = [@ EXCEPT !.pc = "resolved",
                            !.event = event, !.response = RejectedResponse]]
       ELSE /\ activeEvents' = activeEvents \cup {eventKey(event)}
            /\ task' = [task EXCEPT ![c] = [@ EXCEPT !.pc = "processing",
                            !.event = event, !.invoked = TRUE]]
    /\ UNCHANGED <<sentReplies, memVars, wsVars, errorVars, fileVars>>

\* the reply the pipeline sent upstream, as the adapter records it
UpstreamReply(event) ==
    [channelId |-> event.channelId, content |-> "reply",
     options |-> [replyToMessageId |-> <<event.messageId>>]]

\* the pipeline returns `response` to the handleEvent call c; the key is removed
ProcessMessageReturns(c, response) ==
    /\ task[c].pc = "processing"
    /\ activeEvents' = Cleanup(activeEvents, eventKey(task[c].event), FALSE)
    /\ sentReplies' = IF response.replySent
                      THEN Append(sentReplies, UpstreamReply(task[c].event))
                      ELSE sentReplies
    /\ task' = [task EXCEPT ![c] = [@ EXCEPT !.pc = "resolved", !.response = response,
                    !.messages = IF response.replySent THEN @ + 1 ELSE @]]
    /\ UNCHANGED <<memVars, wsVars, errorVars, fileVars>>

\* the pipeline throws: handleEvent turns it into a failed response
ProcessMessageThrows(c) ==
    /\ task[c].pc = "processing"
    /\ activeEvents' = Cleanup(activeEvents, eventKey(task[c].event), TRUE)
    /\ task' = [task EXCEPT ![c] = [@ EXCEPT !.pc = "resolved", !.threw = TRUE,
                    !.response = ThrownResponse]]
    /\ UNCHANGED <<sentReplies, memVars, wsVars, errorVars, fileVars>>

\* ------------------------------------------------------ ReplyDispatcher
\* dispatchErrorIfNeeded as its specification describes it (section 4.6), over
\* the platform adapter of tests/core/reply-dispatcher.test.ts.
\* MockPlatformAdapter.sendReply(channelId, content, options); calls counts its uses
sendReply(adapter, channelId, content, options) ==
    IF adapter.shouldFail
    THEN [result |-> [success |-> FALSE],
          adapter |-> [adapter EXCEPT !.calls = @ + 1]]
    ELSE [result |-> [success |-> TRUE],
          adapter |-> [adapter EXCEPT !.calls = @ + 1,
              !.sentReplies = Append(@, [channelId |-> channelId, content |-> content,
                                         options |-> options])]]

ApologyText == "encountered an issue"
ExpectedErrors == {DuplicateError, CancelledError}

\* faulty variant: no error is taken for an expected one
IsExpectedErrorNever(error) == FALSE

\* an error that needs no notice: a duplicate event or a cancellation
IsExpectedError(error) == error # <<>> /\ error[1] \in ExpectedErrors

\* faulty variant: a response that reports success is not looked at
NothingToDispatchIgnoresSuccess(response) == response.replySent

\* faulty variant: a reply already sent upstream is not looked at
NothingToDispatchIgnoresReplySent(response) == response.success

\* success, or a reply already sent upstream: nothing to do
NothingToDispatch(response) == response.success \/ response.replySent

\* faulty variant: an attempted send counts as a dispatched notice
DispatchedWhenTried(result) == TRUE

\* the value dispatchErrorIfNeeded returns after its send
Dispatched(result) == result.success

\* dispatchErrorIfNeeded(adapter, channelId, response, replyToMessageId)
dispatchErrorIfNeeded(adapter, channelId, response, replyToMessageId) ==
    IF NothingToDispatch(response)
    THEN [dispatched |-> FALSE, adapter |-> adapter]
    ELSE IF IsExpectedError(response.error)
    THEN [dispatched |-> FALSE, adapter |-> adapter]
    ELSE LET sent == sendReply(adapter, channelId, ApologyText,
                               [replyToMessageId |-> replyToMessageId])
         IN  [dispatched |-> Dispatched(sent.result), adapter |-> sent.adapter]

\* the caller of handleEvent passes its response on to the dispatcher
DispatchErrorIfNeeded(c, replyToMessageId, shouldFail) ==
    /\ task[c].pc = "resolved"
    /\ LET adapter == [sentReplies |-> sentReplies, shouldFail |-> shouldFail, calls |-> 0]
           out == dispatchErrorIfNeeded(adapter, task[c].event.channelId,
                                        task[c].response, replyToMessageId)
       IN  /\ sentReplies' = out.adapter.sentReplies
           /\ task' = [task EXCEPT ![c] = [@ EXCEPT !.pc = "done",
                  !.dispatched = out.dispatched,
                  !.sends = out.adapter.calls,
                  !.replyTo = replyToMessageId,
                  !.sendFailed = shouldFail,
                  !.messages = @ + Len(out.adapter.sentReplies) - Len(sentReplies)]]
    /\ UNCHANGED <<activeEvents, memVars, wsVars, errorVars, fileVars>>

Handle == \E c \in Calls, event \in Events : HandleEvent(c, event)
PipelineReturns == \E c \in Calls, response \in PipelineResponses : ProcessMessageReturns(c, response)
PipelineThrows == \E c \in Calls : ProcessMessageThrows(c)
DispatchError ==
    \E c \in Calls :
        /\ task[c].pc = "resolved"
        /\ \E shouldFail \in BOOLEAN :
           \E replyToMessageId \in {<<>>, <<task[c].event.messageId>>} :
               DispatchErrorIfNeeded(c, replyToMessageId, shouldFail)

\* the event layer: calls of handleEvent, the pipeline, the dispatcher
NextHandler ==
    \/ Handle
    \/ PipelineReturns
    \/ PipelineThrows
    \/ DispatchError

InitHandler == Init /\ isDm = FALSE

SpecHandler == InitHandler /\ [][NextHandler]_vars

\* ---------------------------------- two handlings of one workspace at once
\* The pipeline of an admitted handling calls patchMemory, which suspends
\* between its findMemoryById and its append.
\* the events of one channel, hence of one workspace
RaceEvents == {e \in Events : e.platform = "discord"}
RaceTarget == "mem_1"
RacePatches ==
    {[enabled |-> <<FALSE>>, visibility |-> <<>>, importance |-> <<>>],
     [enabled |-> <<>>, visibility |-> <<>>, importance |-> <<"normal">>]}

\* patchMemory up to the return of findMemoryById
PatchFind(c) ==
    /\ task[c].pc = "processing"
    /\ task[c].step = "none"
    /\ LET found == findMemoryById(isDm, pub, priv, RaceTarget)
       IN  task' = [task EXCEPT ![c] = [@ EXCEPT
                       !.step = IF found = <<>> THEN "failed" ELSE "found",
                       !.found = found,
                       !.seen = Len(pub)]]
    /\ UNCHANGED <<activeEvents, sentReplies, memVars, wsVars, errorVars, fileVars>>

\* patchMemory from the patch entry to the append
PatchAppend(c, patch, now) ==
    /\ task[c].pc = "processing"
    /\ task[c].step = "found"
    /\ LET patchEntry == PatchEntry(generateId(nextId), toISOString(now),
                                    RaceTarget, patch)
           route == PatchRoute(task[c].found[1])
           line == JSONstringify(patchEntry)
       IN  /\ nextId' = nextId + 1
           /\ clock' = now
           /\ IF getMemoryPath(isDm, route) = NoPath
              THEN /\ task' = [task EXCEPT ![c] = [@ EXCEPT !.step = "failed"]]
                   /\ UNCHANGED <<pub, priv, last>>
              ELSE /\ pub' = AppendTo(pub, PUBLIC, route, line)
                   /\ priv' = AppendTo(priv, PRIVATE, route, line)
                   /\ last' = [op |-> "patchMemory", error |-> "none",
                               targetId |-> RaceTarget, patch |-> patch]
                   /\ task' = [task EXCEPT ![c] = [@ EXCEPT
                                  !.step = "appended",
                                  !.behind = Len(pub) - task[c].seen]]
    /\ UNCHANGED <<isDm, created, activeEvents, sentReplies, wsVars, errorVars, fileVars>>

HandleRace == \E c \in Calls, event \in RaceEvents : HandleEvent(c, event)
FindRace == \E c \in Calls : PatchFind(c)
AppendRace == \E c \in Calls, patch \in RacePatches, now \in Instants : PatchAppend(c, patch, now)
ReturnRace ==
    \E c \in Calls :
        /\ task[c].step \in {"appended", "failed"}
        /\ ProcessMessageReturns(c, [success |-> task[c].step = "appended",
                                     replySent |-> TRUE, error |-> <<>>])

NextRace ==
    \/ HandleRace
    \/ FindRace
    \/ AppendRace
    \/ ReturnRace

\* a workspace that holds one memory
InitRace ==
    /\ isDm = FALSE
    /\ pub = <<LogMemory1>>
    /\ priv = <<>>
    /\ nextId = 2
    /\ clock = 0
    /\ created = <<>>
    /\ last = [op |-> "init", error |-> "none"]
    /\ HandlerInit
    /\ ProcessStarted
    /\ fs = [dir |-> TRUE, pub |-> TRUE, priv |-> FALSE]
    /\ caller = [w \in Callers |-> IdleCaller]
    /\ FilesIdle

SpecRace == InitRace /\ [][NextRace]_vars

\* ------------------------------------------------ paths (path-validator.ts)
\* A string is the sequence of its characters, a path the sequence of its
\* segments.
\* faulty variant: the ".." sequences are left in
ReplaceDotDotNever(s) == s

RECURSIVE ReplaceDotDot(_)
\* component.replace(/\.\./g, "_")
ReplaceDotDot(s) ==
    IF Len(s) < 2 THEN s
    ELSE IF s[1] = "." /\ s[2] = "."
         THEN <<"_">> \o ReplaceDotDot(SubSeq(s, 3, Len(s)))
         ELSE <<s[1]>> \o ReplaceDotDot(Tail(s))

\* component.replace(/[\/\\]/g, "_")
ReplaceSeparators(s) ==
    [i \in 1..Len(s) |-> IF s[i] \in {"/", "\\"} THEN "_" ELSE s[i]]

RECURSIVE StripLeadingDots(_)
\* component.replace(/^\.+/, "")
StripLeadingDots(s) ==
    IF s # <<>> /\ s[1] = "." THEN StripLeadingDots(Tail(s)) ELSE s

RECURSIVE TrimStart(_)
TrimStart(s) == IF s # <<>> /\ s[1] = " " THEN TrimStart(Tail(s)) ELSE s
RECURSIVE TrimEnd(_)
TrimEnd(s) ==
    IF s # <<>> /\ s[Len(s)] = " " THEN TrimEnd(SubSeq(s, 1, Len(s) - 1)) ELSE s
\* String.prototype.trim
trim(s) == TrimEnd(TrimStart(s))

sanitizePathComponent(component) ==
    trim(StripLeadingDots(ReplaceDotDot(ReplaceSeparators(component))))

RECURSIVE SplitFrom(_, _, _)
\* the segments of a string between its "/" characters
SplitFrom(s, i, segment) ==
    IF i > Len(s) THEN <<segment>>
    ELSE IF s[i] = "/" THEN <<segment>> \o SplitFrom(s, i + 1, <<>>)
         ELSE SplitFrom(s, i + 1, Append(segment, s[i]))
Split(s) == SplitFrom(s, 1, <<>>)

RECURSIVE NormalizeFrom(_, _, _)
\* resolve(): "" and "." segments dropped, ".." steps to the parent
NormalizeFrom(segments, i, done) ==
    IF i > Len(segments) THEN done
    ELSE IF segments[i] \in {<<>>, <<".">>}
         THEN NormalizeFrom(segments, i + 1, done)
    ELSE IF segments[i] = <<".", ".">>
         THEN NormalizeFrom(segments, i + 1,
                            IF done = <<>> THEN done ELSE SubSeq(done, 1, Len(done) - 1))
    ELSE NormalizeFrom(segments, i + 1, Append(done, segments[i]))

\* resolve(join(base, relativePath)) for an absolute, normalized base
resolveJoin(base, relativePath) == NormalizeFrom(Split(relativePath), 1, base)

\* relative(boundary, target) for two normalized absolute paths
relative(boundary, target) ==
    LET common == CHOOSE n \in 0..Len(boundary) :
                    /\ n <= Len(target)
                    /\ SubSeq(boundary, 1, n) = SubSeq(target, 1, n)
                    /\ \A m \in (n + 1)..Len(boundary) :
                          m > Len(target) \/ SubSeq(boundary, 1, m) # SubSeq(target, 1, m)
    IN  [i \in 1..(Len(boundary) - common) |-> <<".", ".">>]
        \o SubSeq(target, common + 1, Len(target))

\* relativePath.startsWith("..") || relativePath.startsWith("/")
Escapes(relativePath) ==
    /\ relativePath # <<>>
    /\ Len(relativePath[1]) >= 2
    /\ relativePath[1][1] = "." /\ relativePath[1][2] = "."

\* validatePathWithinBoundary(targetPath, boundaryPath): TRUE when it throws
validatePathWithinBoundary(targetPath, boundaryPath) ==
    Escapes(relative(boundaryPath, targetPath))

\* faulty variant: Deno.stat never finds the path
pathExistsNever(present) == FALSE

\* pathExists(path), `present` telling whether the path is on the disk
pathExists(present) == present

\* ------------------------------------- workspaces (workspace-manager.ts)
workspacesRoot == <<<<"r", "e", "p", "o">>, <<"w", "s">>>>

\* computeWorkspaceKey(components), with "/" between the sanitized components
computeWorkspaceKey(components) ==
    sanitizePathComponent(components.platform) \o <<"/">>
    \o sanitizePathComponent(components.userId) \o <<"/">>
    \o sanitizePathComponent(components.channelId)

\* getWorkspacePath(workspaceKey): the path, and whether the validation throws
getWorkspacePath(workspaceKey) ==
    LET path == resolveJoin(workspacesRoot, workspaceKey)
    IN  [path |-> path, denied |-> validatePathWithinBoundary(path, workspacesRoot)]

\* the event every caller passes: one conversation, ids as a platform sends them
WorkspaceEvent ==
    [platform |-> <<"d", "c">>, userId |-> <<".", ".", "/", "u">>,
     channelId |-> <<" ", "c", "\\", "1">>]

\* what getOrCreateWorkspace(event) returns
WorkspaceInfo(event, dm) ==
    LET key == computeWorkspaceKey(event)
    IN  [key |-> key, path |-> getWorkspacePath(key).path, isDm |-> dm]

\* caller w is back from its call with a WorkspaceInfo
Returned(w) ==
    [caller EXCEPT ![w] = [@ EXCEPT !.pc = "idle", !.returned = @ + 1,
                               !.result = WorkspaceInfo(WorkspaceEvent, isDm)]]
At(w, pc) == [caller EXCEPT ![w] = [@ EXCEPT !.pc = pc]]

\* getOrCreateWorkspace(event) up to its first await: key and path
GetOrCreateWorkspace(w) ==
    /\ caller[w].pc = "idle"
    /\ caller[w].returned < MaxReturns
    /\ caller[w].error = "none"
    /\ caller' = [caller EXCEPT ![w] =
          IF getWorkspacePath(computeWorkspaceKey(WorkspaceEvent)).denied
          THEN [@ EXCEPT !.error = "WORKSPACE_ACCESS_DENIED"]
          ELSE [@ EXCEPT !.pc = "pathExists",
                         !.sawReturn = \E v \in Callers : caller[v].returned > 0]]
    /\ UNCHANGED <<fs, memVars, handlerVars, fileVars, errorVars>>

\* const exists = await pathExists(path)
PathExistsWorkspace(w) ==
    /\ caller[w].pc = "pathExists"
    /\ caller' = At(w, IF pathExists(fs.dir) THEN "stat" ELSE "ensureDirectory")
    /\ UNCHANGED <<fs, memVars, handlerVars, fileVars, errorVars>>

\* await Deno.stat(path), errors ignored; then the return
StatWorkspace(w) ==
    /\ caller[w].pc = "stat"
    /\ caller' = Returned(w)
    /\ UNCHANGED <<fs, memVars, handlerVars, fileVars, errorVars>>

\* await ensureDirectory(path): mkdir, "already exists" tolerated
EnsureDirectory(w) ==
    /\ caller[w].pc = "ensureDirectory"
    /\ fs' = [fs EXCEPT !.dir = TRUE]
    /\ caller' = At(w, "pathExistsPublic")
    /\ UNCHANGED <<memVars, handlerVars, fileVars, errorVars>>

\* initializeWorkspaceFiles: await pathExists(publicMemoryPath)
PathExistsPublic(w) ==
    /\ caller[w].pc = "pathExistsPublic"
    /\ caller' = IF ~pathExists(fs.pub) THEN At(w, "writePublic")
                 ELSE IF isDm THEN At(w, "pathExistsPrivate")
                 ELSE Returned(w)
    /\ UNCHANGED <<fs, memVars, handlerVars, fileVars, errorVars>>

\* await Deno.writeTextFile(publicMemoryPath, ""): the file is created or emptied
WritePublic(w) ==
    /\ caller[w].pc = "writePublic"
    /\ fs' = [fs EXCEPT !.pub = TRUE]
    /\ pub' = <<>>
    /\ caller' = IF isDm THEN At(w, "pathExistsPrivate") ELSE Returned(w)
    /\ UNCHANGED <<isDm, priv, nextId, clock, created, last, handlerVars, fileVars, errorVars>>

\* if (isDm): await pathExists(privateMemoryPath)
PathExistsPrivate(w) ==
    /\ caller[w].pc = "pathExistsPrivate"
    /\ caller' = IF ~pathExists(fs.priv) THEN At(w, "writePrivate") ELSE Returned(w)
    /\ UNCHANGED <<fs, memVars, handlerVars, fileVars, errorVars>>

\* await Deno.writeTextFile(privateMemoryPath, "")
WritePrivate(w) ==
    /\ caller[w].pc = "writePrivate"
    /\ fs' = [fs EXCEPT !.priv = TRUE]
    /\ priv' = <<>>
    /\ caller' = Returned(w)
    /\ UNCHANGED <<isDm, pub, nextId, clock, created, last, handlerVars, fileVars, errorVars>>

\* the files on the disk after addMemory's append, which creates a missing file
AfterAppend(options) ==
    LET fileType == FileTypeOf(OrElse(options.visibility, "public"))
    IN  IF getMemoryFilePath(isDm, fileType) = NoPath THEN fs
        ELSE IF fileType = PRIVATE THEN [fs EXCEPT !.priv = TRUE]
        ELSE [fs EXCEPT !.pub = TRUE]

\* addMemory by a caller that holds the WorkspaceInfo of a returned call
AddToWorkspace(w) ==
    /\ caller[w].returned > 0
    /\ caller[w].pc = "idle"
    /\ nextId <= MaxIds
    /\ \E content \in Contents, options \in AddOptions, now \in Instants :
          /\ AddMemory(content, options, now)
          /\ fs' = AfterAppend(options)
    /\ UNCHANGED <<caller, handlerVars, fileVars, errorVars>>

Begin == \E w \in Callers : GetOrCreateWorkspace(w)
CheckWorkspace == \E w \in Callers : PathExistsWorkspace(w)
Stat == \E w \in Callers : StatWorkspace(w)
MakeDirectory == \E w \in Callers : EnsureDirectory(w)
CheckPublic == \E w \in Callers : PathExistsPublic(w)
CreatePublic == \E w \in Callers : WritePublic(w)
CheckPrivate == \E w \in Callers : PathExistsPrivate(w)
CreatePrivate == \E w \in Callers : WritePrivate(w)
AddAfterReturn == \E w \in Callers : AddToWorkspace(w)

\* concurrent getOrCreateWorkspace calls for one key, and addMemory after a return
NextWorkspace ==
    \/ Begin
    \/ CheckWorkspace
    \/ Stat
    \/ MakeDirectory
    \/ CheckPublic
    \/ CreatePublic
    \/ CheckPrivate
    \/ CreatePrivate
    \/ AddAfterReturn

\* nothing of the workspace is on the disk yet
InitWorkspace ==
    /\ MemoryInit
    /\ HandlerInit
    /\ ProcessStarted
    /\ fs = [dir |-> FALSE, pub |-> FALSE, priv |-> FALSE]
    /\ caller = [w \in Callers |-> IdleCaller]
    /\ FilesIdle

SpecWorkspace == InitWorkspace /\ [][NextWorkspace]_vars

\* ----------------------------- workspace file operations (workspace-manager.ts)
\* The directory tree maps an absolute path to a directory or to a file with
\* its content, the sequence of the texts written to it.
Directory == [kind |-> "dir", content |-> <<>>]
RegularFile(content) == [kind |-> "file", content |-> content]
IsDirectory(tree, path) == path \in DOMAIN tree /\ tree[path].kind = "dir"
IsFile(tree, path) == path \in DOMAIN tree /\ tree[path].kind = "file"
Parent(path) == SubSeq(path, 1, Len(path) - 1)
Ancestors(path) == {SubSeq(path, 1, n) : n \in 0..(Len(path) - 1)}
\* a file stands where the path needs a directory
ThroughFile(tree, path) == \E q \in Ancestors(path) : IsFile(tree, q)
Put(tree, path, value) ==
    [q \in DOMAIN tree \cup {path} |-> IF q = path THEN value ELSE tree[q]]

\* Deno.readTextFile(path)
readTextFile(tree, path) ==
    IF IsFile(tree, path) THEN [error |-> "none", content |-> tree[path].content]
    ELSE IF IsDirectory(tree, path) THEN [error |-> "IsADirectory", content |-> <<>>]
    ELSE IF ThroughFile(tree, path) THEN [error |-> "NotADirectory", content |-> <<>>]
    ELSE [error |-> "NotFound", content |-> <<>>]

\* Deno.mkdir(path, {recursive: true})
mkdir(tree, path) ==
    IF IsFile(tree, path) THEN [error |-> "AlreadyExists", tree |-> tree]
    ELSE IF ThroughFile(tree, path) THEN [error |-> "NotADirectory", tree |-> tree]
    ELSE [error |-> "none",
          tree |-> [q \in DOMAIN tree \cup Ancestors(path) \cup {path} |->
                       IF q \in DOMAIN tree THEN tree[q] ELSE Directory]]

\* ensureDirectory(path): AlreadyExists is swallowed
ensureDirectory(tree, path) ==
    LET made == mkdir(tree, path)
    IN  IF made.error = "AlreadyExists" THEN [error |-> "none", tree |-> tree] ELSE made

\* Deno.writeTextFile(path, content, {append})
writeTextFile(tree, path, content, append) ==
    IF IsDirectory(tree, path) THEN [error |-> "IsADirectory", tree |-> tree]
    ELSE IF ThroughFile(tree, path) THEN [error |-> "NotADirectory", tree |-> tree]
    ELSE IF ~IsDirectory(tree, Parent(path)) THEN [error |-> "NotFound", tree |-> tree]
    ELSE [error |-> "none",
          tree |-> Put(tree, path,
                       RegularFile(IF append /\ IsFile(tree, path)
                                   THEN Append(tree[path].content, content)
                                   ELSE <<content>>))]

\* validateFileAccess(filePath, workspace): TRUE when it throws
validateFileAccess(filePath, workspace) ==
    validatePathWithinBoundary(filePath, workspace.path)

\* the workspace the file operations are called with
FileWorkspace == WorkspaceInfo(WorkspaceEvent, FALSE)
PublicFileName == <<"m", "e", "m">>

\* the segments a caller's relativePath is made of, and the paths tried
PathSegments == {<<".", ".">>, <<>>, <<"d">>, <<"f">>, <<".", ".", "f">>}
RECURSIVE JoinSegments(_)
JoinSegments(segments) ==
    IF Len(segments) = 1 THEN segments[1]
    ELSE segments[1] \o <<"/">> \o JoinSegments(Tail(segments))
RelativePaths ==
    {JoinSegments(segments) :
        segments \in UNION {[1..n -> PathSegments] : n \in 1..MaxSegments}}
FileTexts == {"line1", "line2"}

\* what the call leaves in `access`
Outcome(op, relativePath, absolutePath, error, content, touched) ==
    [op |-> op, relativePath |-> relativePath, absolutePath |-> absolutePath,
     error |-> error, content |-> content, touched |-> touched,
     wasFile |-> IsFile(disk, absolutePath),
     wasWritable |-> ~IsDirectory(disk, absolutePath) /\ ~ThroughFile(disk, absolutePath)]

\* readWorkspaceFile(workspace, relativePath)
ReadWorkspaceFile(workspace, relativePath) ==
    LET absolutePath == resolveJoin(workspace.path, relativePath)
        read == readTextFile(disk, absolutePath)
    IN  /\ access' =
              IF validateFileAccess(absolutePath, workspace)
              THEN Outcome("read", relativePath, absolutePath,
                           "WORKSPACE_ACCESS_DENIED", <<>>, {})
              ELSE Outcome("read", relativePath, absolutePath,
                           IF read.error = "NotFound" THEN "WORKSPACE_NOT_FOUND"
                           ELSE read.error,
                           read.content, {absolutePath})
        /\ UNCHANGED <<disk, workspaces, memVars, handlerVars, wsVars, errorVars>>

\* writeWorkspaceFile(workspace, relativePath, content)
WriteWorkspaceFile(workspace, relativePath, content) ==
    LET absolutePath == resolveJoin(workspace.path, relativePath)
        parentDir == Parent(absolutePath)
        ensured == ensureDirectory(disk, parentDir)
        written == writeTextFile(ensured.tree, absolutePath, content, FALSE)
    IN  /\ IF validateFileAccess(absolutePath, workspace)
           THEN /\ access' = Outcome("write", relativePath, absolutePath,
                                     "WORKSPACE_ACCESS_DENIED", <<>>, {})
                /\ disk' = disk
           ELSE IF ensured.error # "none"
           THEN /\ access' = Outcome("write", relativePath, absolutePath,
                                     ensured.error, <<>>, {parentDir})
                /\ disk' = disk
           ELSE /\ access' = Outcome("write", relativePath, absolutePath,
                                     written.error, <<>>, {parentDir, absolutePath})
                /\ disk' = written.tree
        /\ UNCHANGED <<workspaces, memVars, handlerVars, wsVars, errorVars>>

\* appendWorkspaceFile(workspace, relativePath, content)
AppendWorkspaceFile(workspace, relativePath, content) ==
    LET absolutePath == resolveJoin(workspace.path, relativePath)
        written == writeTextFile(disk, absolutePath, content, TRUE)
    IN  /\ IF validateFileAccess(absolutePath, workspace)
           THEN /\ access' = Outcome("append", relativePath, absolutePath,
                                     "WORKSPACE_ACCESS_DENIED", <<>>, {})
                /\ disk' = disk
           ELSE /\ access' = Outcome("append", relativePath, absolutePath,
                                     written.error, <<>>, {absolutePath})
                /\ disk' = written.tree
        /\ UNCHANGED <<workspaces, memVars, handlerVars, wsVars, errorVars>>

\* the files of the tree, the measure of how much has been written
FilesOn(tree) == {q \in DOMAIN tree : tree[q].kind = "file"}

ReadFile == \E relativePath \in RelativePaths : ReadWorkspaceFile(FileWorkspace, relativePath)
WriteFile ==
    /\ Cardinality(FilesOn(disk)) <= MaxFiles
    /\ \E relativePath \in RelativePaths, content \in FileTexts :
          WriteWorkspaceFile(FileWorkspace, relativePath, content)
AppendFile ==
    /\ Cardinality(FilesOn(disk)) <= MaxFiles
    /\ \E relativePath \in RelativePaths, content \in FileTexts :
          AppendWorkspaceFile(FileWorkspace, relativePath, content)

\* the file operations of one workspace, by any relative path
NextFiles ==
    \/ ReadFile
    \/ WriteFile
    \/ AppendFile

\* the tree after getOrCreateWorkspace: the directory and its public memory file
CreatedTree ==
    LET path == FileWorkspace.path
        file == Append(path, PublicFileName)
    IN  [q \in Ancestors(path) \cup {path, file} |->
            IF q = file THEN RegularFile(<<>>) ELSE Directory]

InitFiles ==
    /\ MemoryInit
    /\ isDm = FALSE
    /\ HandlerInit
    /\ ProcessStarted
    /\ fs = [dir |-> TRUE, pub |-> TRUE, priv |-> FALSE]
    /\ caller = [w \in Callers |-> IdleCaller]
    /\ disk = CreatedTree
    /\ access = [op |-> "init", error |-> "none"]
    /\ workspaces = <<>>

SpecFiles == InitFiles /\ [][NextFiles]_vars

\* --------------------------------- workspace keys (computeWorkspaceKey)
\* the characters an untrusted userId or channelId is made of, and the strings
\* of at most n of them
IdChars == {".", "/", "\\", " ", "u", "_"}
IdStrings(n) == UNION {[1..k -> IdChars] : k \in 0..n}
KeyPlatforms == {<<"d", "c">>, <<"m", "k">>}
KeyEvents(n) == [platform : KeyPlatforms, userId : IdStrings(n), channelId : IdStrings(n)]

\* getWorkspaceKeyFromEvent(event) and getWorkspacePath(key), as
\* getOrCreateWorkspace calls them
Resolution(event) ==
    LET key == computeWorkspaceKey(event)
        at == getWorkspacePath(key)
    IN  [components |-> event, key |-> key, path |-> at.path, denied |-> at.denied]

ResolveWorkspace(event) == workspaces' = Append(workspaces, Resolution(event))

\* the first event of a behaviour
ResolveFirst(n) ==
    /\ workspaces = <<>>
    /\ \E event \in KeyEvents(n) : ResolveWorkspace(event)
    /\ UNCHANGED <<disk, access, memVars, handlerVars, wsVars, errorVars>>

\* the same event again
ResolveAgain ==
    /\ Len(workspaces) = 1
    /\ ResolveWorkspace(workspaces[1].components)
    /\ UNCHANGED <<disk, access, memVars, handlerVars, wsVars, errorVars>>

\* an event of another conversation
ResolveOther(n) ==
    /\ Len(workspaces) = 1
    /\ \E event \in KeyEvents(n) \ {workspaces[1].components} : ResolveWorkspace(event)
    /\ UNCHANGED <<disk, access, memVars, handlerVars, wsVars, errorVars>>

\* one conversation, its ids any strings of MaxIdLen characters
NextKey ==
    \/ ResolveFirst(MaxIdLen)
    \/ ResolveAgain

\* no workspace has been resolved yet
InitKeys == Init /\ isDm = FALSE

SpecKey == InitKeys /\ [][NextKey]_vars

\* two conversations, their ids any strings of MaxPairIdLen characters
NextKeys ==
    \/ ResolveFirst(MaxPairIdLen)
    \/ ResolveOther(MaxPairIdLen)

SpecKeys == InitKeys /\ [][NextKeys]_vars

\* -------------------------------------------- the Memory Store of two workspaces
\* getMemoryFilePath(workspace, MemoryFileType.PUBLIC): join(workspace.path, fileType)
MemoryFileOf(workspace) == Append(workspace.path, PublicFileName)

\* readWorkspaceFile of the public memory file: its lines, or Missing
LinesOf(tree, workspace) ==
    IF readTextFile(tree, MemoryFileOf(workspace)).error = "none"
    THEN tree[MemoryFileOf(workspace)].content
    ELSE Missing

\* appendWorkspaceFile of one line to the public memory file
AppendLine(tree, workspace, line) ==
    Put(tree, MemoryFileOf(workspace),
        RegularFile(appendWorkspaceFile(LinesOf(tree, workspace), line)))

\* getOrCreateWorkspace run to its end: a missing directory is created with
\* its empty public memory file
CreateWorkspace(tree, workspace) ==
    IF pathExists(workspace.path \in DOMAIN tree) THEN tree
    ELSE LET made == ensureDirectory(tree, workspace.path).tree
         IN  IF pathExists(MemoryFileOf(workspace) \in DOMAIN made) THEN made
             ELSE Put(made, MemoryFileOf(workspace), RegularFile(<<>>))

\* the events of one platform, their ids any strings of MaxPairIdLen characters
PairEvents == {e \in KeyEvents(MaxPairIdLen) : e.platform = <<"d", "c">>}

\* getOrCreateWorkspace for the first event, then for an event of another
\* conversation
ResolvePair ==
    /\ Len(workspaces) < 2
    /\ \E event \in PairEvents :
          /\ \A k \in 1..Len(workspaces) : workspaces[k].components # event
          /\ ~Resolution(event).denied
          /\ ResolveWorkspace(event)
          /\ disk' = CreateWorkspace(disk, Resolution(event))
    /\ UNCHANGED <<access, memVars, handlerVars, wsVars, errorVars>>

\* addMemory(workspaces[i], "pizza", {importance: "high"})
AddPair(i) ==
    /\ Len(workspaces) = 2
    /\ nextId <= MaxPairIds
    /\ LET entry == [id |-> generateId(nextId), ts |-> toISOString(clock),
                     type |-> "memory", enabled |-> TRUE, visibility |-> "public",
                     importance |-> "high", content |-> "pizza"]
       IN  /\ disk' = AppendLine(disk, workspaces[i], JSONstringify(entry))
           /\ created' = (entry.id :> i) @@ created
           /\ last' = [op |-> "addMemory", error |-> "none", workspace |-> i,
                       entry |-> entry]
    /\ nextId' = nextId + 1
    /\ UNCHANGED <<isDm, pub, priv, clock, access, workspaces, handlerVars, wsVars, errorVars>>

\* patchMemory(workspaces[i], targetId, {enabled: false})
PatchPair(i, targetId) ==
    /\ Len(workspaces) = 2
    /\ nextId <= MaxPairIds
    /\ LET found == findMemoryById(FALSE, LinesOf(disk, workspaces[i]), <<>>, targetId)
           patchEntry == PatchEntry(generateId(nextId), toISOString(clock), targetId,
                            [enabled |-> <<FALSE>>, visibility |-> <<>>,
                             importance |-> <<>>])
       IN  IF found = <<>>
           THEN /\ last' = [op |-> "patchMemory", error |-> "MEMORY_READ_FAILED",
                            workspace |-> i, targetId |-> targetId]
                /\ UNCHANGED <<disk, nextId>>
           ELSE /\ disk' = AppendLine(disk, workspaces[i], JSONstringify(patchEntry))
                /\ nextId' = nextId + 1
                /\ last' = [op |-> "patchMemory", error |-> "none",
                            workspace |-> i, targetId |-> targetId]
    /\ UNCHANGED <<isDm, pub, priv, clock, created, access, workspaces, handlerVars, wsVars, errorVars>>

AddToEither == \E i \in 1..2 : AddPair(i)
PatchInEither == \E i \in 1..2 : \E targetId \in DOMAIN created : PatchPair(i, targetId)

NextPair ==
    \/ ResolvePair
    \/ AddToEither
    \/ PatchInEither

SpecPair == InitKeys /\ [][NextPair]_vars

\* ------------------------------------------ graceful shutdown (error-handler.ts)
Signals == {"SIGTERM", "SIGINT"}

\* faulty variant: the listener does not look at the flag
alreadyShuttingDownNever(flag) == FALSE

\* the listener's test, if (isShuttingDown) return
alreadyShuttingDown(flag) == flag

\* one SIGTERM or SIGINT listener, run on the flag and the events dispatched
\* so far: if the flag is set it returns, else it sets the flag and
\* dispatches "shutdown"
signalListener(state) ==
    IF alreadyShuttingDown(state.isShuttingDown) THEN state
    ELSE [isShuttingDown |-> TRUE, dispatched |-> Append(state.dispatched, "shutdown")]

\* the runtime calls the n listeners registered for the signal, one after another
RECURSIVE runListeners(_, _)
runListeners(n, state) ==
    IF n = 0 THEN state ELSE runListeners(n - 1, signalListener(state))

\* setupGlobalErrorHandler({enableGracefulShutdown}): registers a SIGTERM and
\* a SIGINT listener if the option is set
SetupGlobalErrorHandler(enableGracefulShutdown) ==
    /\ setupCalls < MaxSetups
    /\ setupCalls' = setupCalls + 1
    /\ signalListeners' = IF enableGracefulShutdown THEN signalListeners + 1
                          ELSE signalListeners
    /\ UNCHANGED <<isShuttingDown, received, dispatched>>
    /\ UNCHANGED <<memVars, handlerVars, wsVars, fileVars>>

\* the process receives a signal it has listeners for
ReceiveSignal(signal) ==
    /\ signalListeners > 0
    /\ Len(received) < MaxSignals
    /\ received' = Append(received, signal)
    /\ LET after == runListeners(signalListeners,
                        [isShuttingDown |-> isShuttingDown, dispatched |-> dispatched])
       IN  /\ isShuttingDown' = after.isShuttingDown
           /\ dispatched' = after.dispatched
    /\ UNCHANGED <<signalListeners, setupCalls>>
    /\ UNCHANGED <<memVars, handlerVars, wsVars, fileVars>>

\* isGracefulShutdownInProgress()
isGracefulShutdownInProgress == isShuttingDown

Setup == \E enableGracefulShutdown \in BOOLEAN : SetupGlobalErrorHandler(enableGracefulShutdown)
Sigterm == ReceiveSignal("SIGTERM")
Sigint == ReceiveSignal("SIGINT")

NextShutdown ==
    \/ Setup
    \/ Sigterm
    \/ Sigint

SpecShutdown == InitKeys /\ [][NextShutdown]_vars

\* ------------------------------------------------- the log files, read raw
\* The properties below read the files line by line, without the Memory
\* Store's parser and resolver.
Files == <<pub, priv>>
ReadableFiles == IF isDm THEN {1, 2} ELSE {1}

IsLine(file, i, type) ==
    /\ "type" \in DOMAIN file[i]
    /\ file[i].type = type

CreationLines(file) == {i \in 1..Len(file) : IsLine(file, i, "memory")}

HasCreation(file, id) == \E i \in CreationLines(file) : file[i].id = id

\* the patch lines of the file that target id and carry field f
FieldPatches(file, id, f) ==
    {i \in 1..Len(file) :
        /\ IsLine(file, i, "patch")
        /\ file[i].targetId = id
        /\ f \in DOMAIN file[i]}

\* line i comes after line j in ascending timestamp order, ties by file order
After(file, i, j) ==
    \/ IsoRank(file[i].ts) > IsoRank(file[j].ts)
    \/ file[i].ts = file[j].ts /\ i > j

\* the text of field f of the memory created at line c, folded over its patches
FoldedField(file, c, f) ==
    LET ps == FieldPatches(file, file[c].id, f)
    IN  IF ps = {} THEN file[c][f]
        ELSE file[CHOOSE i \in ps : \A j \in ps \ {i} : After(file, i, j)][f]

PatchFields == {"enabled", "visibility", "importance"}

\* the timestamps of each file do not decrease from top to bottom
TimestampsInOrder ==
    \A n \in 1..2 : \A i, j \in 1..Len(Files[n]) :
        i < j => IsoRank(Files[n][i].ts) <= IsoRank(Files[n][j].ts)

IsPrefix(s, t) == Len(s) <= Len(t) /\ SubSeq(t, 1, Len(s)) = s

\* -------------------------------------------------------------- properties

\* C1: every patch event lies in the log file that holds the creation event of
\* its target, whatever visibility this patch or an earlier one asked for.
C1_PatchInCreationFile ==
    \A n \in 1..2 : \A i \in 1..Len(Files[n]) :
        IsLine(Files[n], i, "patch") => HasCreation(Files[n], Files[n][i].targetId)

\* C2: patchMemory(id, {enabled: true}) on an existing memory succeeds and the
\* memory then resolves to enabled (stated for files whose timestamps are in order).
C2_EnableTakesEffect ==
    (/\ last.op = "patchMemory"
     /\ \E n \in ReadableFiles : HasCreation(Files[n], last.targetId)
     /\ TimestampsInOrder)
    => (last.patch.enabled = <<TRUE>>
        => /\ last.error = "none"
           /\ findMemoryById(isDm, pub, priv, last.targetId)[1].enabled)

\* C3: the resolved memory of every id addMemory returned has the content that
\* was passed to that addMemory, after any later calls.
C3_ContentImmutable ==
    \A id \in DOMAIN created :
        LET m == findMemoryById(isDm, pub, priv, id)
        IN  m # <<>> /\ m[1].content = created[id]

C3_Witness ==
    \E id \in DOMAIN created :
        /\ Cardinality(DOMAIN created) = 2
        /\ \E n \in 1..2 : \E i \in 1..Len(Files[n]) :
              IsLine(Files[n], i, "patch") /\ Files[n][i].targetId = id
                  /\ HasCreation(Files[n], id)

\* C4: for each log file, the resolved enabled, visibility and importance of a
\* memory are its creation values overridden by the patches targeting it, taken
\* in ascending timestamp order with ties in file order; a field no patch
\* carries keeps its creation value.
C4_ResolutionIsFold ==
    \A n \in 1..2 :
        LET file == Files[n]
            resolved == resolveMemories(parseMemoryLog(file))
        IN  /\ {resolved[k].id : k \in 1..Len(resolved)}
                  = {file[c].id : c \in CreationLines(file)}
            /\ \A c \in CreationLines(file) : \A k \in 1..Len(resolved) :
                  resolved[k].id = file[c].id =>
                     \A f \in PatchFields :
                        ValueText(f, resolved[k][f]) = FoldedField(file, c, f)

\* two patches of one memory carry the same field with different values, and
\* the one later in the file has the earlier timestamp
C4_Witness ==
    \E n \in 1..2 : \E f \in PatchFields : \E i, j \in FieldPatches(Files[n], "mem_1", f) :
        /\ HasCreation(Files[n], "mem_1")
        /\ i < j
        /\ IsoRank(Files[n][i].ts) > IsoRank(Files[n][j].ts)
        /\ Files[n][i][f] # Files[n][j][f]

\* C5: every step leaves the old content of each log file as a prefix of the
\* new; a successful addMemory or patchMemory extends exactly one file by
\* exactly one line; getImportantMemories and searchMemories change no file.
C5_AppendOnly ==
    [][/\ IsPrefix(pub, pub')
       /\ IsPrefix(priv, priv')
       /\ (last'.op \in {"addMemory", "patchMemory"} /\ last'.error = "none")
             => \/ Len(pub') = Len(pub) + 1 /\ priv' = priv
                \/ Len(priv') = Len(priv) + 1 /\ pub' = pub
       /\ last'.op \in {"getImportantMemories", "searchMemories"}
             => pub' = pub /\ priv' = priv]_vars

C5_Witness ==
    /\ last.op = "patchMemory"
    /\ last.error = "none"
    /\ Len(pub) + Len(priv) = 2

\* C6: addMemory with visibility "private" fails with MemoryWriteFailed and
\* appends nothing on a non-DM workspace; on a DM workspace it succeeds, its
\* creation event goes to the private file only and the public file's
\* memories do not include it.
C6_PrivateAdd ==
    [][(last'.op = "addMemory" /\ last'.visibility = "private")
          => IF ~isDm
             THEN /\ last'.error = "MEMORY_WRITE_FAILED"
                  /\ pub' = pub
                  /\ priv' = priv
             ELSE /\ last'.error = "none"
                  /\ pub' = pub
                  /\ Len(priv') = Len(priv) + 1
                  /\ IsLine(priv', Len(priv'), "memory")
                  /\ priv'[Len(priv')].id = last'.entry.id
                  /\ ~HasCreation(pub', last'.entry.id)
                  /\ Find(loadAllMemories(isDm, pub', priv', "public"),
                          last'.entry.id) = <<>>]_vars

C6_Witness ==
    /\ isDm
    /\ last.op = "addMemory"
    /\ last.visibility = "private"
    /\ last.error = "none"
    /\ pub # <<>>

\* C7: on a non-DM workspace neither getImportantMemories nor searchMemories
\* returns a memory whose resolved visibility is "private".
C7_NoPrivateOutsideDm ==
    (~isDm /\ last.op \in {"getImportantMemories", "searchMemories"})
    => \A k \in 1..Len(last.result) : last.result[k].visibility # "private"

\* the memories of a file whose folded state is enabled and of high importance
ImportantIds(file) ==
    {file[c].id : c \in {d \in CreationLines(file) :
        /\ FoldedField(file, d, "enabled") = "true"
        /\ FoldedField(file, d, "importance") = "high"}}

\* C8: getImportantMemories returns exactly the memories that are enabled and
\* of high importance, of the public file and, iff the workspace is a DM, of
\* the private file, each once, in ascending order of creation timestamp.
C8_ImportantExact ==
    last.op = "getImportantMemories"
    => LET r == last.result
       IN  /\ {r[k].id : k \in 1..Len(r)}
                 = ImportantIds(pub) \cup (IF isDm THEN ImportantIds(priv) ELSE {})
           /\ \A k, l \in 1..Len(r) : k < l =>
                 /\ r[k].id # r[l].id
                 /\ IsoRank(r[k].createdAt) <= IsoRank(r[l].createdAt)
           /\ \A k \in 1..Len(r) : \E n \in ReadableFiles : \E c \in CreationLines(Files[n]) :
                 /\ Files[n][c].id = r[k].id
                 /\ Files[n][c].ts = r[k].createdAt
                 /\ Files[n][c].content = r[k].content

\* two important memories are returned, the one created later in the file
\* first, while a third memory of the workspace is left out
C8_Witness ==
    /\ last.op = "getImportantMemories"
    /\ Len(last.result) = 2
    /\ \E n \in 1..2 : \E c, d \in CreationLines(Files[n]) :
          /\ c < d
          /\ Files[n][d].id = last.result[1].id
          /\ Files[n][c].id = last.result[2].id
    /\ Cardinality(DOMAIN created) = 3

\* C9: searchMemories returns no memory whose folded state is disabled, returns
\* each id at most once, and returns at most the configured limit of memories.
C9_SearchSafe ==
    last.op = "searchMemories"
    => LET r == last.result
       IN  /\ Len(r) <= last.limit
           /\ \A k, l \in 1..Len(r) : k < l => r[k].id # r[l].id
           /\ \A k \in 1..Len(r) : \E n \in ReadableFiles : \E c \in CreationLines(Files[n]) :
                 /\ Files[n][c].id = r[k].id
                 /\ FoldedField(Files[n], c, "enabled") = "true"

\* a search whose keyword is the content of a disabled memory, and which
\* returns nothing
C9_Witness ==
    /\ last.op = "searchMemories"
    /\ last.keywords = <<"pizza", "BLUE">>
    /\ last.result = <<>>
    /\ \E n \in ReadableFiles : \E c \in CreationLines(Files[n]) :
          /\ Files[n][c].content \in {"blue", "pizza"}
          /\ FoldedField(Files[n], c, "enabled") = "false"

\* C10: patchMemory with a targetId that has no creation event in a file the
\* workspace reads fails with MemoryReadFailed and changes no file.
C10_PatchUnknownTarget ==
    [][(/\ last'.op = "patchMemory"
        /\ ~\E n \in ReadableFiles : HasCreation(Files[n], last'.targetId))
          => /\ last'.error = "MEMORY_READ_FAILED"
             /\ pub' = pub
             /\ priv' = priv]_vars

\* the unknown target is the id of a patch event of the file
C10_Witness ==
    /\ last.op = "patchMemory"
    /\ last.error = "MEMORY_READ_FAILED"
    /\ \E i \in 1..Len(pub) : IsLine(pub, i, "patch") /\ pub[i].id = last.targetId

\* ------------------------------------------------ the event layer, observed
InFlight(c) == task[c].pc = "processing"
Started(c) == task[c].pc # "idle"
SameKey(e1, e2) == e1.platform = e2.platform /\ e1.messageId = e2.messageId
Arrives(d) == task[d].pc = "idle" /\ task'[d].pc # "idle"
IsRejection(response) ==
    response = [success |-> FALSE, replySent |-> FALSE,
                error |-> <<"Event already being processed">>]

\* C11: no two handlings of one (platform, messageId) are in flight together,
\* and a handleEvent call that arrives while its key is in flight is answered
\* in that same step with the duplicate rejection, the pipeline not invoked.
C11_DedupAdmission ==
    [][/\ \A c, d \in Calls :
            (c # d /\ InFlight(c)' /\ InFlight(d)')
            => ~SameKey(task'[c].event, task'[d].event)
       /\ \A d \in Calls :
            (Arrives(d) /\ \E c \in Calls :
                              InFlight(c) /\ SameKey(task[c].event, task'[d].event))
            => /\ task'[d].pc = "resolved"
               /\ IsRejection(task'[d].response)
               /\ ~task'[d].invoked
               /\ \A c \in Calls \ {d} : task'[c] = task[c]]_vars

\* two calls with one key, made while the first was in flight, have both
\* resolved: one with the pipeline's success, one rejected; nothing is in flight
C11_Witness ==
    \E c, d \in Calls :
        /\ c # d
        /\ task[c].pc \in {"resolved", "done"} /\ task[d].pc \in {"resolved", "done"}
        /\ SameKey(task[c].event, task[d].event)
        /\ task[c].invoked /\ task[c].response.success
        /\ ~task[d].invoked /\ IsRejection(task[d].response)
        /\ getActiveCount = 0

\* the keys that have an admitted handling not yet completed
KeysInFlight ==
    {<<task[c].event.platform, task[c].event.messageId>> : c \in {d \in Calls : InFlight(d)}}

\* C12: whichever way the pipeline ends (success, failure, exception), the key
\* is removed and handleEvent has returned a response, with success = false
\* after an exception; when no handling is in flight getActiveCount() is 0.
C12_CleanupOnExit ==
    /\ \A key \in activeEvents : key \in KeysInFlight
    /\ \A c \in Calls :
          task[c].threw => /\ task[c].pc \in {"resolved", "done"}
                           /\ task[c].response # <<>>
                           /\ ~task[c].response.success
    /\ \A c \in Calls :
          (task[c].invoked /\ ~InFlight(c)) => task[c].response # <<>>
    /\ (\A c \in Calls : ~InFlight(c)) => getActiveCount = 0

\* one handling ended by an exception, another by a returned failure
C12_Witness ==
    \E c, d \in Calls :
        /\ task[c].threw /\ task[c].pc = "resolved"
        /\ task[d].invoked /\ ~task[d].threw /\ task[d].pc = "resolved"
        /\ ~task[d].response.success
        /\ getActiveCount = 0

\* C13: isProcessing(platform, messageId) is true exactly for the keys admitted
\* and not yet completed, getActiveCount() is their number, and a rejected
\* duplicate call changes neither.
C13_IntrospectionExact ==
    [][/\ \A p \in Platforms, m \in MessageIds :
            isProcessing(p, m)' <=> (<<p, m>> \in KeysInFlight')
       /\ getActiveCount' = Cardinality(KeysInFlight')
       /\ \A d \in Calls :
            (Arrives(d) /\ IsRejection(task'[d].response))
            => /\ \A p \in Platforms, m \in MessageIds :
                     isProcessing(p, m)' = isProcessing(p, m)
               /\ getActiveCount' = getActiveCount]_vars

\* a duplicate was rejected while the first handling of its key is in flight
C13_Witness ==
    \E c, d \in Calls :
        /\ InFlight(c)
        /\ task[d].pc = "resolved" /\ IsRejection(task[d].response)
        /\ SameKey(task[c].event, task[d].event)
        /\ isProcessing(task[d].event.platform, task[d].event.messageId)
        /\ getActiveCount = 1

\* C14: a call is rejected as a duplicate only when a handling of the very
\* same (platform, messageId) is in flight; every other call is admitted and
\* handed to the pipeline, whatever else is in flight.
C14_DistinctKeysIndependent ==
    [][\A d \in Calls :
         Arrives(d) =>
            IF \E c \in Calls \ {d} : InFlight(c) /\ SameKey(task[c].event, task'[d].event)
            THEN IsRejection(task'[d].response)
            ELSE InFlight(d)' /\ task'[d].invoked /\ task'[d].response = <<>>]_vars

\* the same messageId is in flight on both platforms at once
C14_Witness ==
    \E c, d \in Calls :
        /\ InFlight(c) /\ InFlight(d)
        /\ task[c].event.messageId = task[d].event.messageId
        /\ task[c].event.platform # task[d].event.platform
        /\ getActiveCount = 2

\* the dispatcher runs for call c in this step
Dispatches(c) == task[c].pc = "resolved" /\ task'[c].pc = "done"
\* the notice dispatchErrorIfNeeded sends for call c
Notice(c) ==
    [channelId |-> task[c].event.channelId, content |-> "encountered an issue",
     options |-> [replyToMessageId |-> task'[c].replyTo]]

\* C15: for a response with success = true or replySent = true, whatever its
\* error, dispatchErrorIfNeeded returns false and never calls sendReply.
C15_NoDispatchWhenHandled ==
    [][\A c \in Calls :
         (Dispatches(c) /\ (task[c].response.success \/ task[c].response.replySent))
         => /\ ~task'[c].dispatched
            /\ task'[c].sends = 0
            /\ sentReplies' = sentReplies]_vars

\* dispatched: a success that carries an error, and a failure already replied to
C15_Witness ==
    \E c, d \in Calls :
        /\ task[c].pc = "done" /\ task[d].pc = "done"
        /\ task[c].response.success /\ task[c].response.error # <<>>
        /\ ~task[c].response.replySent
        /\ ~task[d].response.success /\ task[d].response.replySent

Expected(response) ==
    /\ response.error # <<>>
    /\ response.error[1] \in {"Event already being processed", "Session was cancelled"}

\* C16: for a failed response without a reply whose error is the duplicate
\* rejection or a cancellation, no reply is sent and the result is false.
C16_ExpectedErrorsSuppressed ==
    [][\A c \in Calls :
         (/\ Dispatches(c)
          /\ ~task[c].response.success /\ ~task[c].response.replySent
          /\ Expected(task[c].response))
         => /\ ~task'[c].dispatched
            /\ task'[c].sends = 0
            /\ sentReplies' = sentReplies]_vars

\* dispatched: a rejected duplicate and a cancelled session
C16_Witness ==
    \E c, d \in Calls :
        /\ task[c].pc = "done" /\ task[d].pc = "done"
        /\ IsRejection(task[c].response)
        /\ task[d].response.error = <<"Session was cancelled">>
        /\ ~task[d].response.replySent

\* C17: for a failed response without a reply and with any other error, the
\* adapter's sendReply is called exactly once, with the given channel, the
\* apology and replyToMessageId; the result is true iff that send succeeded.
C17_NoticeSentOnce ==
    [][\A c \in Calls :
         (/\ Dispatches(c)
          /\ ~task[c].response.success /\ ~task[c].response.replySent
          /\ ~Expected(task[c].response))
         => /\ task'[c].sends = 1
            /\ task'[c].dispatched <=> ~task'[c].sendFailed
            /\ sentReplies' = IF task'[c].sendFailed THEN sentReplies
                              ELSE Append(sentReplies, Notice(c))]_vars

\* a notice went out threaded to the message, and another send failed
C17_Witness ==
    \E c, d \in Calls :
        /\ task[c].pc = "done" /\ task[c].dispatched /\ task[c].replyTo # <<>>
        /\ task[d].pc = "done" /\ ~task[d].dispatched /\ task[d].sendFailed
        /\ task[d].sends = 1
        /\ Len(sentReplies) = 1

StepsAgain(w) ==
    /\ caller'[w] # caller[w]
    /\ IF caller[w].pc = "idle"
       THEN \E v \in Callers : caller[v].returned > 0
       ELSE caller[w].sawReturn

\* C19: a getOrCreateWorkspace call made after one has returned for the same
\* (platform, userId, channelId) raises no error, returns the key and path
\* returned before, and leaves the memory files and their contents as they are.
C19_Idempotent ==
    [][\A w \in Callers :
         StepsAgain(w)
         => /\ caller'[w].error = "none"
            /\ pub' = pub /\ priv' = priv
            /\ fs'.pub = fs.pub /\ fs'.priv = fs.priv
            /\ caller'[w].pc = "idle"
               => \A v \in Callers :
                     caller[v].returned > 0
                     => /\ caller'[w].result.key = caller[v].result.key
                        /\ caller'[w].result.path = caller[v].result.path]_vars

\* a second call of one caller has returned over a memory file with content
C19_Witness ==
    \E w \in Callers :
        /\ caller[w].returned = 2 /\ caller[w].pc = "idle" /\ caller[w].sawReturn
        /\ pub # <<>>

\* C20: whatever the interleaving of concurrent getOrCreateWorkspace calls for
\* one key and of addMemory calls made after a call returned, each memory file
\* keeps every line appended to it.
C20_NoEventLost ==
    [][IsPrefix(pub, pub') /\ IsPrefix(priv, priv')]_vars

\* ----------------------------------------- workspace file operations, observed
HasParentSegment(relativePath) ==
    \E i \in 1..Len(Split(relativePath)) : Split(relativePath)[i] = <<".", ".">>
IsAbsolute(relativePath) == relativePath # <<>> /\ relativePath[1] = "/"
\* a relative path with no ".." segment that names something under the workspace
StrictlyInside(relativePath) ==
    /\ ~HasParentSegment(relativePath)
    /\ ~IsAbsolute(relativePath)
    /\ \E i \in 1..Len(Split(relativePath)) : Split(relativePath)[i] \notin {<<>>, <<".">>}
Denied == "WORKSPACE_ACCESS_DENIED"

\* C21: readWorkspaceFile and writeWorkspaceFile fail with WorkspaceAccessDenied
\* for every relative path with a ".." segment and for every absolute path; for
\* every path strictly inside the workspace they succeed (a read of an existing
\* file, a write wherever the tree can hold a file).
C21_BoundaryEnforcement ==
    access.op \in {"read", "write"}
    => /\ (HasParentSegment(access.relativePath) \/ IsAbsolute(access.relativePath))
             => access.error = Denied
       /\ StrictlyInside(access.relativePath)
             => /\ access.error # Denied
                /\ (access.op = "write" /\ access.wasWritable) => access.error = "none"
                /\ (access.op = "read" /\ access.wasFile) => access.error = "none"

\* C22: a workspace file operation either fails with WorkspaceAccessDenied
\* before it touches the filesystem, or touches only paths equal to or beneath
\* workspace.path.
C22_NoEscape ==
    access.op \in {"read", "write", "append"}
    => IF access.error = Denied
       THEN access.touched = {}
       ELSE \A path \in access.touched : IsPrefix(FileWorkspace.path, path)

\* ------------------------------------------------- workspace keys, observed
SameComponents(a, b) ==
    /\ a.platform = b.platform
    /\ a.userId = b.userId
    /\ a.channelId = b.channelId
HasDotDot(text) == \E i \in 1..(Len(text) - 1) : text[i] = "." /\ text[i + 1] = "."
Count(text, char) == Cardinality({i \in 1..Len(text) : text[i] = char})

\* C23: two events that differ in (platform, userId, channelId) resolve to
\* different workspace directories, neither inside the other.
C23_WorkspaceIsolation ==
    \A i, j \in 1..Len(workspaces) :
        ~SameComponents(workspaces[i].components, workspaces[j].components)
        => /\ workspaces[i].path # workspaces[j].path
           /\ ~IsPrefix(workspaces[i].path, workspaces[j].path)
           /\ ~IsPrefix(workspaces[j].path, workspaces[i].path)

\* C24: for every userId and channelId, the same components give the same key
\* each time, the key has no ".." sequence and no path separator but the two
\* between its three components, and the workspace path lies within the
\* workspaces root (getWorkspacePath does not raise AccessDenied).
C24_KeyTraversalFree ==
    /\ \A i, j \in 1..Len(workspaces) :
          SameComponents(workspaces[i].components, workspaces[j].components)
          => /\ workspaces[i].key = workspaces[j].key
             /\ workspaces[i].path = workspaces[j].path
    /\ \A i \in 1..Len(workspaces) :
          /\ ~HasDotDot(workspaces[i].key)
          /\ Count(workspaces[i].key, "/") = 2
          /\ Count(workspaces[i].key, "\\") = 0
          /\ ~workspaces[i].denied
          /\ IsPrefix(workspacesRoot, workspaces[i].path)

\* an event resolved twice whose userId is "../" and whose channelId ends in ".."
C24_Witness ==
    /\ Len(workspaces) = 2
    /\ workspaces[1].components.userId = <<".", ".", "/">>
    /\ workspaces[1].components.channelId = <<"\\", ".", ".">>

\* ------------------------------------------------ logs found on the disk
\* whether a line is the text of a memory event
IsEventLine(line) == "type" \in DOMAIN line /\ line.type \in {"memory", "patch"}

\* a file without its lines that are not memory events
WithoutMalformed(file) ==
    IF file = Missing THEN Missing ELSE SelectSeq(file, IsEventLine)

HasMalformed(file) == file # Missing /\ \E i \in 1..Len(file) : ~IsEventLine(file[i])

\* C25: a line that is not a well-formed memory event never makes
\* getImportantMemories, searchMemories or patchMemory fail, and what they
\* resolve is what they would resolve from the file without that line:
\* getImportantMemories returns the important memories of the remaining lines,
\* every memory searchMemories returns is a memory of the remaining lines, and
\* patchMemory finds its target exactly when the remaining lines create it.
C25_MalformedSkippable ==
    LET cleanPub == WithoutMalformed(pub)
        cleanPriv == WithoutMalformed(priv)
    IN  /\ last.op \in {"getImportantMemories", "searchMemories", "patchMemory"}
              => last.error # "TypeError"
        /\ last.op = "getImportantMemories"
              => /\ last.error = "none"
                 /\ last.result = getImportantMemories(isDm, cleanPub, cleanPriv)
        /\ last.op = "searchMemories"
              => /\ last.error = "none"
                 /\ \A k \in 1..Len(last.result) :
                       findMemoryById(isDm, cleanPub, cleanPriv, last.result[k].id)
                           = <<last.result[k]>>
        /\ last.op = "patchMemory"
              => (last.error = "MEMORY_READ_FAILED"
                    <=> findMemoryById(isDm, cleanPub, cleanPriv, last.targetId) = <<>>)

\* C26: searchInFile and searchMultipleKeywords on a file that does not exist
\* return an empty list and raise no error, with ripgrep or without it, and
\* the reads of the Memory Store take a missing memory file for an empty one.
C26_MissingFileIsEmpty ==
    LET asEmpty(file) == IF file = Missing THEN <<>> ELSE file
    IN  /\ (pub = Missing /\ last.op \in {"searchInFile", "searchMultipleKeywords"})
              => last.error = "none" /\ last.result = <<>>
        /\ ((pub = Missing \/ priv = Missing) /\ last.op = "getImportantMemories"
               /\ ~HasMalformed(pub) /\ ~HasMalformed(priv))
              => /\ last.error = "none"
                 /\ last.result = getImportantMemories(isDm, asEmpty(pub), asEmpty(priv))
        /\ ((pub = Missing \/ priv = Missing) /\ last.op = "searchMemories")
              => /\ last.error = "none"
                 /\ last.result = searchMemories(isDm, asEmpty(pub), asEmpty(priv),
                                                 last.keywords, last.options, last.rg)

\* searchInFile on the missing public file with ripgrep at hand, and the
\* private file of the direct message holds a memory
C26_Witness ==
    /\ pub = Missing
    /\ last.op = "searchInFile"
    /\ last.rg
    /\ last.error = "none"
    /\ isDm /\ priv = <<LogPrivate>>

\* ------------------------------------------------------- searches of a file
\* whether a line holds the word, letter case aside
HoldsWord(line, word) ==
    \E k \in DOMAIN line :
        toLowerCase(k) = toLowerCase(word) \/ toLowerCase(line[k]) = toLowerCase(word)

\* the numbers of the lines of the file that hold any of the keywords
MatchingLines(file, keywords) ==
    {i \in 1..Len(file) : \E j \in 1..Len(keywords) : HoldsWord(file[i], keywords[j])}

\* the n smallest numbers of a set
FirstOf(S, n) == {i \in S : Cardinality({j \in S : j < i}) < n}

\* the summed length of the lines numbered in S
RECURSIVE SumChars(_, _)
SumChars(file, S) ==
    IF S = {} THEN 0
    ELSE LET i == CHOOSE x \in S : TRUE
         IN  CharLength(file[i]) + SumChars(file, S \ {i})

LineNumbers(results) == {results[k].lineNumber : k \in 1..Len(results)}

C29_SearchCapped ==
    (last.op = "searchInFile" /\ pub # Missing) =>
        LET r == last.result
            maxResults == OrElse(last.options.maxResults, DefaultMaxResults)
            maxChars == OrElse(last.options.maxChars, DefaultMaxChars)
            matching == MatchingLines(pub, last.keywords)
        IN  /\ Len(r) <= maxResults
            /\ SumChars(pub, LineNumbers(r)) <= maxChars
            /\ \A k \in 1..Len(r) : r[k].content = pub[r[k].lineNumber]
            /\ Cardinality(LineNumbers(r)) = Len(r)
            /\ LineNumbers(r) = FirstOf(matching, Len(r))
            /\ (Len(r) < maxResults /\ LineNumbers(r) # matching)
                  => SumChars(pub, FirstOf(matching, Len(r) + 1)) > maxChars

\* the first matching line is longer than the budget and a later matching
\* line would fit: nothing is returned, on the fast path
C29_Witness ==
    /\ last.op = "searchInFile"
    /\ pub # Missing /\ Len(pub) = 2
    /\ last.rg
    /\ last.result = <<>>
    /\ MatchingLines(pub, last.keywords) = {1, 2}
    /\ CharLength(pub[1]) > OrElse(last.options.maxChars, DefaultMaxChars)
    /\ CharLength(pub[2]) <= OrElse(last.options.maxChars, DefaultMaxChars)

\* ------------------------------------------------------------ orphan patches
\* line i of the file is a patch whose target no line of the file creates
IsOrphan(file, i) == IsLine(file, i, "patch") /\ ~HasCreation(file, file[i].targetId)

\* the file without its orphan patches
WithoutOrphans(file) ==
    IF file = Missing THEN Missing
    ELSE LET kept == {i \in 1..Len(file) : ~IsOrphan(file, i)}
             nth(k) == CHOOSE i \in kept : Cardinality({j \in kept : j < i}) = k - 1
         IN  [k \in 1..Cardinality(kept) |-> file[nth(k)]]

\* C30: a patch whose target has no creation event in its file produces no
\* resolved memory and changes no other memory: the file resolves to what it
\* resolves to without its orphan patches, every resolved memory has a
\* creation line, and getImportantMemories fails or returns exactly as it does
\* on the files without them.
C30_OrphanPatchesDropped ==
    /\ \A f \in ReadableFiles :
          (Files[f] # Missing /\ ~ResolveThrows(parseMemoryLog(Files[f]))) =>
              LET resolved == resolveMemories(parseMemoryLog(Files[f]))
              IN  /\ resolved = resolveMemories(parseMemoryLog(WithoutOrphans(Files[f])))
                  /\ \A k \in 1..Len(resolved) : HasCreation(Files[f], resolved[k].id)
    /\ last.op = "getImportantMemories" =>
          LET thrown == ImportantThrown(isDm, WithoutOrphans(pub), WithoutOrphans(priv))
          IN  /\ last.error = thrown
              /\ thrown = "none" =>
                    last.result = getImportantMemories(isDm, WithoutOrphans(pub),
                                                       WithoutOrphans(priv))

\* an orphan patch that raises the importance of a memory no line creates,
\* ahead of the creation of another memory, which is the only one returned
C30_Witness ==
    /\ last.op = "getImportantMemories"
    /\ last.error = "none"
    /\ pub = <<OrphanPatch, LogMemory1>>
    /\ IsOrphan(pub, 1)
    /\ Len(last.result) = 1
    /\ last.result[1].id = "mem_1"

\* --------------------------------------------------------- read your writes
\* the place of an id in the order generateId issues them
IdRank(id) == CHOOSE i \in 1..Len(IdText) : IdText[i] = id

\* the lines of the file are in the order their ids were issued, which is the
\* order of the calls that appended them
InAppendOrder(file) ==
    \A i, j \in 1..Len(file) : i < j => IdRank(file[i].id) < IdRank(file[j].id)

\* C28: with the operations run one at a time, the read that follows an
\* addMemory or a patchMemory that has returned parses the event just written
\* as the last event of its file, findMemoryById finds a memory just added
\* with the content and the importance given, and the lines of each file are
\* in the order of their appends.
C28_ReadYourWrites ==
    [][/\ InAppendOrder(pub') /\ InAppendOrder(priv')
       /\ (last'.op \in {"addMemory", "patchMemory"} /\ last'.error = "none") =>
             LET grown == IF pub' # pub THEN pub' ELSE priv'
                 events == parseMemoryLog(grown)
                 written == events[Len(events)]
             IN  /\ Len(events) = Len(grown)
                 /\ written.id = generateId(nextId)
                 /\ last'.op = "addMemory" =>
                       /\ written = last'.entry
                       /\ LET found == findMemoryById(isDm, pub', priv', last'.entry.id)
                          IN  /\ found # <<>>
                              /\ found[1].content = last'.entry.content
                              /\ found[1].importance = last'.entry.importance
                              /\ found[1].createdAt = last'.entry.ts
                 /\ last'.op = "patchMemory" =>
                       /\ IsType(written, "patch")
                       /\ written.targetId = last'.targetId
                       /\ \A f \in {"enabled", "visibility", "importance"} :
                             IF last'.patch[f] = <<>> THEN f \notin DOMAIN written
                             ELSE f \in DOMAIN written /\ written[f] = last'.patch[f][1]]_vars

\* a memory added to a file that already holds two lines, its creation the
\* third line
C28_Witness ==
    /\ last.op = "addMemory"
    /\ last.error = "none"
    /\ Len(pub) = 3
    /\ JSONparse(pub[3]) = last.entry
    /\ IsLine(pub, 2, "patch")

\* ------------------------------------------------- workspace initialization
\* C31: once a getOrCreateWorkspace call has returned, the workspace directory
\* and its public memory file exist, and the private memory file exists
\* exactly when the workspace is the workspace of a direct message.
C31_Initialized ==
    (\E w \in Callers : caller[w].returned > 0)
        => /\ fs.dir
           /\ fs.pub
           /\ fs.priv <=> isDm

\* ------------------------------------------------ handlings of one workspace
\* C32: a handleEvent call whose messageId differs from those in flight is
\* admitted and handed to the pipeline although it resolves to the workspace
\* of the handling in flight, and nothing of the admission holds back the
\* findMemoryById or the append of either: a patch may be appended between
\* another patchMemory's read and its append.
C32_WorkspaceNotSerialized ==
    [][\A c, d \in Calls :
         (/\ c # d
          /\ InFlight(c)
          /\ Arrives(d)
          /\ task'[d].event.channelId = task[c].event.channelId
          /\ \A k \in Calls :
                InFlight(k) => task'[d].event.messageId # task[k].event.messageId)
         => /\ InFlight(d)'
            /\ task'[d].invoked
            /\ task'[c] = task[c]
            /\ pub' = pub]_vars

\* two handlings of one workspace in flight; the second read the file, the
\* first appended its patch, then the second appended behind it
C32_Witness ==
    \E c, d \in Calls :
        /\ c # d
        /\ InFlight(c) /\ InFlight(d)
        /\ task[c].event.channelId = task[d].event.channelId
        /\ task[c].event.messageId # task[d].event.messageId
        /\ task[c].step = "appended" /\ task[d].step = "appended"
        /\ task[d].behind = 1
        /\ task[d].seen = 1
        /\ Len(pub) = 3

\* ------------------------------------------------------- patches take effect
\* C33: after a patchMemory that returned without error, and before any other
\* patch, the memory resolves with every field the patch gave at the value it
\* gave (stated for files whose timestamps are in file order).
C33_PatchTakesEffect ==
    (last.op = "patchMemory" /\ last.error = "none" /\ TimestampsInOrder) =>
        LET m == findMemoryById(isDm, pub, priv, last.targetId)
        IN  /\ m # <<>>
            /\ \A f \in PatchFields :
                  last.patch[f] # <<>> => m[1][f] = last.patch[f][1]

\* --------------------------------------------------- timestamps and file order
\* the text of field f of the memory created at line c when its patches are
\* applied in file order: the last patch line that carries f gives it
LastWritten(file, c, f) ==
    LET ps == FieldPatches(file, file[c].id, f)
    IN  IF ps = {} THEN file[c][f]
        ELSE file[CHOOSE i \in ps : \A j \in ps : j <= i][f]

\* C34: with the calls run one at a time under a clock that never goes back,
\* the timestamps of each log file are non-decreasing from top to bottom, and
\* each field of a resolved memory has the value of the last patch line that
\* sets it (its creation value when there is none).
C34_TimestampOrderIsFileOrder ==
    /\ TimestampsInOrder
    /\ \A n \in 1..2 :
          LET file == Files[n]
              resolved == resolveMemories(parseMemoryLog(file))
          IN  \A c \in CreationLines(file) : \A k \in 1..Len(resolved) :
                 resolved[k].id = file[c].id =>
                    /\ \A f \in PatchFields :
                          ValueText(f, resolved[k][f]) = LastWritten(file, c, f)
                    /\ LET all == {i \in 1..Len(file) :
                                      IsLine(file, i, "patch")
                                          /\ file[i].targetId = file[c].id}
                       IN  all # {} =>
                              resolved[k].lastModifiedAt
                                  = file[CHOOSE i \in all : \A j \in all : j <= i].ts

\* one memory patched twice in the same field with different values, the
\* second patch at a later instant
C34_Witness ==
    \E f \in PatchFields : \E i, j \in FieldPatches(pub, "mem_1", f) :
        /\ HasCreation(pub, "mem_1")
        /\ i < j
        /\ IsoRank(pub[i].ts) < IsoRank(pub[j].ts)
        /\ pub[i][f] # pub[j][f]

\* ------------------------------------------------------ search completeness
\* the creation lines of the file that hold a keyword and whose memory
\* resolves as enabled
EnabledMatches(file, keywords) ==
    IF file = Missing THEN {}
    ELSE {c \in CreationLines(file) :
             /\ c \in MatchingLines(file, keywords)
             /\ LET m == findMemoryById(isDm, pub, priv, file[c].id)
                IN  m # <<>> /\ m[1].enabled}

\* C35: when the enabled memories whose line holds a keyword are at most the
\* result limit and their lines fit the character budget, searchMemories
\* returns every one of them, whatever else in the file matches (stated for
\* files all of whose lines are memory events).
C35_SearchComplete ==
    (/\ last.op = "searchMemories"
     /\ ~HasMalformed(pub) /\ ~HasMalformed(priv)) =>
        LET maxChars == OrElse(last.options.maxChars, ConfigMaxChars)
            inPublic == EnabledMatches(pub, last.keywords)
            inPrivate == IF isDm THEN EnabledMatches(priv, last.keywords) ELSE {}
            ids == {pub[c].id : c \in inPublic} \cup {priv[c].id : c \in inPrivate}
            chars == (IF inPublic = {} THEN 0 ELSE SumChars(pub, inPublic))
                     + (IF inPrivate = {} THEN 0 ELSE SumChars(priv, inPrivate))
        IN  (Cardinality(ids) <= last.limit /\ chars <= maxChars)
                => \A id \in ids :
                      \E k \in 1..Len(last.result) : last.result[k].id = id

\* ------------------------------------------------------ dedup after completion
\* the handling of call c was admitted and has completed
Completed(c) == task[c].invoked /\ task[c].pc \in {"resolved", "done"}

\* C36: a key is blocked only while a handling of it is in flight: a
\* handleEvent call that arrives after the handling of its (platform,
\* messageId) has completed, with success, with failure or by an exception,
\* and while no other handling of the key is in flight, is admitted and handed
\* to the pipeline; a key of which no handling is in flight is not in the set.
C36_DedupOnlyInFlight ==
    [][/\ \A c, d \in Calls :
            (/\ c # d
             /\ Completed(c)
             /\ Arrives(d)
             /\ SameKey(task[c].event, task'[d].event)
             /\ ~\E e \in Calls : InFlight(e) /\ SameKey(task[e].event, task'[d].event))
            => /\ InFlight(d)'
               /\ task'[d].invoked
               /\ ~IsRejection(task'[d].response)
               /\ eventKey(task'[d].event) \in activeEvents'
       /\ \A key \in activeEvents' : key \in KeysInFlight']_vars

\* the first handling of a key ended by an exception, the second handling of
\* the same key was admitted after it and has returned the pipeline's success
C36_Witness ==
    \E c, d \in Calls :
        /\ c # d
        /\ Completed(c) /\ task[c].threw
        /\ Completed(d) /\ task[d].response.success
        /\ SameKey(task[c].event, task[d].event)
        /\ getActiveCount = 0

\* ---------------------------------------------------- createdAt, lastModifiedAt
\* the patch lines of the file that target id
PatchLines(file, id) ==
    {i \in 1..Len(file) : IsLine(file, i, "patch") /\ file[i].targetId = id}

\* createdAt and lastModifiedAt of every memory of the file are what its
\* events say
TimestampsResolved(file) ==
    LET resolved == resolveMemories(parseMemoryLog(file))
    IN  \A c \in CreationLines(file) : \A k \in 1..Len(resolved) :
           resolved[k].id = file[c].id =>
              LET ps == PatchLines(file, file[c].id)
              IN  /\ resolved[k].createdAt = file[c].ts
                  /\ ps = {} => resolved[k].lastModifiedAt = file[c].ts
                  /\ ps # {} =>
                        /\ \E i \in ps : resolved[k].lastModifiedAt = file[i].ts
                        /\ \A i \in ps :
                              IsoRank(file[i].ts) <= IsoRank(resolved[k].lastModifiedAt)
                  /\ (\A i, j \in 1..Len(file) :
                         i < j => IsoRank(file[i].ts) <= IsoRank(file[j].ts)) =>
                        IsoRank(resolved[k].lastModifiedAt) >= IsoRank(resolved[k].createdAt)

\* C37: createdAt of a resolved memory is the timestamp of its creation event
\* and no step changes it; lastModifiedAt is that timestamp when no patch
\* targets the memory and otherwise the greatest timestamp among its patches;
\* when the timestamps of the files are in order, lastModifiedAt >= createdAt.
C37_Timestamps ==
    [][/\ TimestampsResolved(pub') /\ TimestampsResolved(priv')
       /\ \A id \in DOMAIN created :
             findMemoryById(isDm, pub', priv', id)[1].createdAt
                 = findMemoryById(isDm, pub, priv, id)[1].createdAt]_vars

\* a memory with two patches, the later line carrying the earlier timestamp:
\* lastModifiedAt is the timestamp of the first patch
C37_Witness ==
    /\ Len(pub) = 3
    /\ IsLine(pub, 1, "memory")
    /\ PatchLines(pub, pub[1].id) = {2, 3}
    /\ IsoRank(pub[3].ts) < IsoRank(pub[2].ts)
    /\ findMemoryById(isDm, pub, priv, pub[1].id)[1].lastModifiedAt = pub[2].ts
    /\ findMemoryById(isDm, pub, priv, pub[1].id)[1].createdAt = pub[1].ts

\* ------------------------------------------------ two workspaces, one store
\* what the reads of the Memory Store return for a workspace
ReadsOf(tree, workspace) ==
    [important |-> getImportantMemories(FALSE, LinesOf(tree, workspace), <<>>),
     found |-> searchMemories(FALSE, LinesOf(tree, workspace), <<>>, <<"pizza">>,
                              [maxResults |-> <<>>, maxChars |-> <<>>], FALSE)]

\* C38: for two workspaces with different keys, an addMemory or a patchMemory
\* on one leaves what getImportantMemories and searchMemories return for the
\* other as it was, and an id created in one is not found in the other.
C38_Noninterference ==
    [][(Len(workspaces) = 2 /\ workspaces[1].key # workspaces[2].key) =>
          /\ \A i \in 1..2 :
                (last'.op \in {"addMemory", "patchMemory"} /\ last'.workspace = i
                    /\ disk' # disk)
                => ReadsOf(disk', workspaces[3 - i]) = ReadsOf(disk, workspaces[3 - i])
          /\ \A id \in DOMAIN created' :
                findMemoryById(FALSE, LinesOf(disk', workspaces[3 - created'[id]]),
                               <<>>, id) = <<>>]_vars

\* ------------------------------------------------------- graceful shutdown
\* C39: with graceful shutdown enabled, "shutdown" is dispatched at most once
\* whatever SIGTERM and SIGINT signals arrive, and
\* isGracefulShutdownInProgress() is false before the first signal and true
\* ever after it.
C39_ShutdownOnce ==
    [][/\ Len(dispatched') <= 1
       /\ received = <<>> => ~isGracefulShutdownInProgress
       /\ received' # <<>> => isGracefulShutdownInProgress'
       /\ isGracefulShutdownInProgress => isGracefulShutdownInProgress']_vars

\* two signals of different kinds have arrived, with two listener pairs
\* registered, and one "shutdown" went out
C39_Witness ==
    /\ signalListeners = 2
    /\ Len(received) >= 2
    /\ \E i, j \in 1..Len(received) : received[i] = "SIGTERM" /\ received[j] = "SIGINT"
    /\ dispatched = <<"shutdown">>
    /\ isGracefulShutdownInProgress

====
